---- MODULE Spec2Model ----
(***************************************************************************)
(* The darkpool core contract (contracts-stylus/src/contracts/             *)
(* darkpool_core.rs): the six settlement flows, the wallet-rotation        *)
(* protocol and the nullifier / public-blinder registries.                 *)
(*                                                                         *)
(* One action per external method.  An action runs the whole method: the   *)
(* method body is a composition of step operators over a "machine" record  *)
(* m (the storage the call sees, the trace of what it did, its error).     *)
(* A step whose input machine already carries an error returns it          *)
(* unchanged: that is Rust's `?`.                                          *)
(***************************************************************************)
EXTENDS Integers, Sequences, FiniteSets, TLC

\* ------------------------------------------------------------------ bounds
MaxNullifier == 3
MaxBlinder == 2
MaxRoot == 1
MaxCommitment == 2
MaxCalls == 2

\* The scalar field is Z_ScalarModulus, scaled down; U256 values at or above
\* it have no scalar.
ScalarModulus == 7
NUM_BYTES_U256 == 4
ByteBase == 4
U256Max == (ByteBase ^ NUM_BYTES_U256) - 1

Nullifiers == 1..MaxNullifier
Blinders == 1..MaxBlinder
Roots == 0..MaxRoot
Commitments == 1..MaxCommitment

\* ------------------------------------------------------------- error kinds
NoError == "ok"
CALLDATA_DESER_ERROR == "calldata deserialization error"
CALL_REVERTED_ERROR == "external call reverted"
VERIFICATION_FAILED_ERROR == "verification failed"
VERIFICATION_DISABLED_ERROR == "verification disabled"
INVALID_ORDER_SETTLEMENT_INDICES_ERROR == "invalid order settlement indices"
INVALID_PROTOCOL_FEE_ERROR == "invalid protocol fee"
INVALID_PROTOCOL_PUBKEY_ERROR == "invalid protocol pubkey"
NULLIFIER_SPENT_ERROR == "nullifier already spent"
PUBLIC_BLINDER_USED_ERROR == "public blinder already used"
ROOT_NOT_IN_HISTORY_ERROR == "root not in history"
SCALAR_CONVERSION_ERROR == "scalar conversion error"

DEVNET_CHAINID == "devnet"
Chains == {DEVNET_CHAINID, "mainnet"}

\* ------------------------------------------------------------------- state
VARIABLES
    no_verify,          \* the build's "no-verify" feature
    host_reverts,       \* whether the host discards a failed call's writes
    nullifier_set,      \* DarkpoolCoreContract.nullifier_set
    public_blinder_set, \* DarkpoolCoreContract.public_blinder_set
    protocol_fee,       \* DarkpoolCoreContract.protocol_fee (a U256)
    protocol_public_encryption_key,
    addresses,          \* verifier / vkeys / merkle / transfer executor
    leaves,             \* the Merkle contract's leaves, in insertion order
    rotated,            \* history: nullifiers of the rotations kept so far
    redeemed,           \* history: note nullifiers of the redemptions kept
    tally,              \* history: what the invocations that returned Ok did
    calls,              \* number of invocations so far
    last                \* the invocation that just returned, or NoCall

vars == <<no_verify, host_reverts, nullifier_set, public_blinder_set,
          protocol_fee, protocol_public_encryption_key, addresses, leaves,
          rotated, redeemed, tally, calls, last>>

config == <<no_verify, host_reverts, protocol_fee,
            protocol_public_encryption_key, addresses>>

NoCall == [flow |-> "none"]

\* ----------------------------------------------------------------- helpers
\* assert_result!: Ok(()) when the condition holds, Err(msg) otherwise.
assert_result(m, cond, msg) ==
    IF m.err # NoError THEN m
    ELSE IF cond THEN m ELSE [m EXCEPT !.err = msg]

Step(op, arg) == [op |-> op, arg |-> arg]

Log(m, op, arg) == [m EXCEPT !.trace = Append(@, Step(op, arg))]

\* The scalar <-> U256 codec.  A U256 is NUM_BYTES_U256 bytes of ByteBase
\* values each; byte strings are sequences, first byte first.
to_le_bytes(u) ==
    [i \in 1..NUM_BYTES_U256 |-> (u \div (ByteBase ^ (i - 1))) % ByteBase]

to_be_bytes(u) ==
    [i \in 1..NUM_BYTES_U256 |->
        (u \div (ByteBase ^ (NUM_BYTES_U256 - i))) % ByteBase]

RECURSIVE bigint_from_le_bytes(_)
bigint_from_le_bytes(bytes) ==
    IF bytes = <<>> THEN 0
    ELSE Head(bytes) + ByteBase * bigint_from_le_bytes(Tail(bytes))

RECURSIVE from_be_slice(_)
from_be_slice(bytes) ==
    IF bytes = <<>> THEN 0
    ELSE Head(bytes) * (ByteBase ^ (Len(bytes) - 1)) + from_be_slice(Tail(bytes))

\* ScalarField::from_bigint: None (here <<>>) at or above the modulus.
from_bigint(bigint) == IF bigint < ScalarModulus THEN <<bigint>> ELSE <<>>

\* The scalar's big-endian bytes, read as a U256.
scalar_to_u256(s) == from_be_slice(to_be_bytes(s))

\* Mutant: the modulus itself is taken for a scalar.
u256_to_scalar_ok_through_modulus(u) ==
    bigint_from_le_bytes(to_le_bytes(u)) <= ScalarModulus

u256_to_scalar_ok(u) == from_bigint(bigint_from_le_bytes(to_le_bytes(u))) # <<>>

u256_to_scalar_value(u) == from_bigint(bigint_from_le_bytes(to_le_bytes(u)))

u256_to_scalar(m, u) ==
    assert_result(m, u256_to_scalar_ok(u), SCALAR_CONVERSION_ERROR)

get_public_blinder_from_shares(shares) == shares[Len(shares)]

\* postcard::from_bytes: a payload either decodes to its statement or fails.
deserialize_from_calldata(m, payload) ==
    assert_result(m, payload.well_formed, CALLDATA_DESER_ERROR)

\* map_call_error: Revert(msg) => msg.
map_call_error(msg) == msg

\* An external call (delegate_call / static_call + map_call_error): the call
\* is made, and reverts when it is the env.fail_at-th call of the invocation;
\* map_call_error hands the callee's revert data on as the error.
call_helper(m, step) ==
    IF m.err # NoError THEN m
    ELSE LET m1 == [m EXCEPT !.trace = Append(@, step), !.ext = @ + 1]
         IN  IF m1.ext = m1.env.fail_at
             THEN [m1 EXCEPT !.err = map_call_error(m1.env.revert_msg),
                             !.reverted = TRUE]
             ELSE m1

external_call(m, op, arg) == call_helper(m, Step(op, arg))

\* Mutant: the chain id guard lets every chain through.
verification_disabled_guard_open(m) == m

\* if_verifying! under the no-verify feature: the chain id guard.
verification_disabled_guard(m) ==
    assert_result(m, m.env.chainid = DEVNET_CHAINID, VERIFICATION_DISABLED_ERROR)

\* The Merkle contract: the root after k insertions, and its root history.
RootOf(k) == 2 * k

RootHistory(tree) == {RootOf(k) : k \in 0..Len(tree)}

\* -------------------------------------------------- trace vocabulary
FETCH_VKEYS == "vkeys static_call"
VERIFY == "verifyCall"
VERIFY_MATCH == "verifyMatchCall"
ROOT_IN_HISTORY == "rootInHistoryCall"
INSERT_SHARES == "insertSharesCommitmentCall"
INSERT_SIGNED_SHARES == "verifyStateSigAndInsertCall"
INSERT_NOTE == "insertNoteCommitmentCall"
EXECUTE_TRANSFER == "executeExternalTransferCall"
NULLIFIER_INSERT == "nullifier_set.insert"
BLINDER_INSERT == "public_blinder_set.insert"
EV_NULLIFIER_SPENT == "NullifierSpent"
EV_WALLET_UPDATED == "WalletUpdated"
EV_NOTE_POSTED == "NotePosted"

VerifierOps == {VERIFY, VERIFY_MATCH}
InsertOps == {INSERT_SHARES, INSERT_SIGNED_SHARES, INSERT_NOTE}
ExternalOps == {FETCH_VKEYS, ROOT_IN_HISTORY, EXECUTE_TRANSFER}
                   \cup VerifierOps \cup InsertOps
WriteOps == {NULLIFIER_INSERT, BLINDER_INSERT}
EventOps == {EV_NULLIFIER_SPENT, EV_WALLET_UPDATED, EV_NOTE_POSTED}

\* ------------------------------------------------------ core getter helpers
get_protocol_public_encryption_key(m) ==
    u256_to_scalar(u256_to_scalar(m, protocol_public_encryption_key[1]),
                   protocol_public_encryption_key[2])

check_root_in_history(m, root) ==
    LET m1 == external_call(m, ROOT_IN_HISTORY, <<scalar_to_u256(root)>>)
    IN  assert_result(m1, scalar_to_u256(root) \in RootHistory(m1.tree),
                      ROOT_NOT_IN_HISTORY_ERROR)

fetch_vkeys(m) == external_call(m, FETCH_VKEYS, <<>>)

\* Mutant: a verifier call that fails is taken for one that returned.
call_verifier_ignoring_failure(m, selector) ==
    IF m.err # NoError THEN m
    ELSE [Log(m, selector, <<>>) EXCEPT !.ext = @ + 1]

\* The verifier's answer is the environment's verdict for this invocation.
call_verifier(m, selector) == external_call(m, selector, <<>>)

verify(m) == call_verifier(m, VERIFY)

\* ------------------------------------------------------ core setter helpers
\* Mutant: the nullifier is marked without checking that it is unspent.
mark_nullifier_spent_unchecked(m, nullifier) ==
    IF m.err # NoError THEN m
    ELSE Log(Log([m EXCEPT !.nul = @ \cup {scalar_to_u256(nullifier)}],
                 NULLIFIER_INSERT, <<scalar_to_u256(nullifier)>>),
             EV_NULLIFIER_SPENT, <<scalar_to_u256(nullifier)>>)

\* Mutant: the nullifier is marked and no event is logged.
mark_nullifier_spent_silent(m, nullifier) ==
    IF m.err # NoError THEN m
    ELSE LET m1 == IF no_verify
                   THEN verification_disabled_guard(m)
                   ELSE assert_result(m, scalar_to_u256(nullifier) \notin m.nul,
                                      NULLIFIER_SPENT_ERROR)
         IN  IF m1.err # NoError THEN m1
             ELSE Log([m1 EXCEPT !.nul = @ \cup {scalar_to_u256(nullifier)}],
                      NULLIFIER_INSERT, <<scalar_to_u256(nullifier)>>)

\* Mutant: marking a nullifier replaces the set by that nullifier alone.
mark_nullifier_spent_replacing(m, nullifier) ==
    IF m.err # NoError THEN m
    ELSE LET m1 == IF no_verify
                   THEN verification_disabled_guard(m)
                   ELSE assert_result(m, scalar_to_u256(nullifier) \notin m.nul,
                                      NULLIFIER_SPENT_ERROR)
         IN  IF m1.err # NoError THEN m1
             ELSE Log(Log([m1 EXCEPT !.nul = {scalar_to_u256(nullifier)}],
                          NULLIFIER_INSERT, <<scalar_to_u256(nullifier)>>),
                      EV_NULLIFIER_SPENT, <<scalar_to_u256(nullifier)>>)

\* Mutant: the spent assertion is made in the no-verify build too.
mark_nullifier_spent_always_checked(m, nullifier) ==
    IF m.err # NoError THEN m
    ELSE LET m1 == assert_result(m, scalar_to_u256(nullifier) \notin m.nul,
                                 NULLIFIER_SPENT_ERROR)
         IN  IF m1.err # NoError THEN m1
             ELSE Log(Log([m1 EXCEPT !.nul = @ \cup {scalar_to_u256(nullifier)}],
                          NULLIFIER_INSERT, <<scalar_to_u256(nullifier)>>),
                      EV_NULLIFIER_SPENT, <<scalar_to_u256(nullifier)>>)

\* Mutant: the spent assertion looks at the nullifier set as the invocation
\* found it, not at the marks the invocation has made.
mark_nullifier_spent_checking_stored_set(m, nullifier) ==
    IF m.err # NoError THEN m
    ELSE LET m1 == IF no_verify
                   THEN verification_disabled_guard(m)
                   ELSE assert_result(m, scalar_to_u256(nullifier) \notin nullifier_set,
                                      NULLIFIER_SPENT_ERROR)
         IN  IF m1.err # NoError THEN m1
             ELSE Log(Log([m1 EXCEPT !.nul = @ \cup {scalar_to_u256(nullifier)}],
                          NULLIFIER_INSERT, <<scalar_to_u256(nullifier)>>),
                      EV_NULLIFIER_SPENT, <<scalar_to_u256(nullifier)>>)

mark_nullifier_spent(m, nullifier) ==
    IF m.err # NoError THEN m
    ELSE LET m1 == IF no_verify
                   THEN verification_disabled_guard(m)
                   ELSE assert_result(m, scalar_to_u256(nullifier) \notin m.nul,
                                      NULLIFIER_SPENT_ERROR)
         IN  IF m1.err # NoError THEN m1
             ELSE Log(Log([m1 EXCEPT !.nul = @ \cup {scalar_to_u256(nullifier)}],
                          NULLIFIER_INSERT, <<scalar_to_u256(nullifier)>>),
                      EV_NULLIFIER_SPENT, <<scalar_to_u256(nullifier)>>)

\* Mutant: the blinder is marked without checking that it is unused.
mark_public_blinder_used_unchecked(m, blinder) ==
    IF m.err # NoError THEN m
    ELSE Log([m EXCEPT !.bl = @ \cup {scalar_to_u256(blinder)}],
             BLINDER_INSERT, <<scalar_to_u256(blinder)>>)

\* Mutant: the blinder is checked and not marked.
mark_public_blinder_used_check_only(m, blinder) ==
    assert_result(m, scalar_to_u256(blinder) \notin m.bl,
                  PUBLIC_BLINDER_USED_ERROR)

\* Mutant: the blinder is checked only when verification is enabled.
mark_public_blinder_used_if_verifying(m, blinder) ==
    IF m.err # NoError THEN m
    ELSE LET m1 == IF no_verify
                   THEN verification_disabled_guard(m)
                   ELSE assert_result(m, scalar_to_u256(blinder) \notin m.bl,
                                      PUBLIC_BLINDER_USED_ERROR)
         IN  IF m1.err # NoError THEN m1
             ELSE Log([m1 EXCEPT !.bl = @ \cup {scalar_to_u256(blinder)}],
                      BLINDER_INSERT, <<scalar_to_u256(blinder)>>)

mark_public_blinder_used(m, blinder) ==
    LET m1 == assert_result(m, scalar_to_u256(blinder) \notin m.bl,
                            PUBLIC_BLINDER_USED_ERROR)
    IN  IF m1.err # NoError THEN m1
        ELSE Log([m1 EXCEPT !.bl = @ \cup {scalar_to_u256(blinder)}],
                 BLINDER_INSERT, <<scalar_to_u256(blinder)>>)

\* Mutant: the private-shares commitment is pushed after the public shares.
prepare_wallet_shares_commitment_last(private_shares_commitment, public_wallet_shares) ==
    [i \in 1..Len(public_wallet_shares) |->
        scalar_to_u256(public_wallet_shares[i])]
        \o <<scalar_to_u256(private_shares_commitment)>>

prepare_wallet_shares_for_insertion(private_shares_commitment, public_wallet_shares) ==
    <<scalar_to_u256(private_shares_commitment)>>
        \o [i \in 1..Len(public_wallet_shares) |->
               scalar_to_u256(public_wallet_shares[i])]

\* The Merkle contract appends the leaf when the delegate call returns.
insert_wallet_commitment_to_merkle_tree(m, private_shares_commitment, public_wallet_shares) ==
    LET total_wallet_shares ==
            prepare_wallet_shares_for_insertion(private_shares_commitment,
                                                public_wallet_shares)
        m1 == external_call(m, INSERT_SHARES, total_wallet_shares)
    IN  IF m1.err # NoError THEN m1
        ELSE [m1 EXCEPT !.tree = Append(@, total_wallet_shares)]

\* A public signing key is four scalars (x and y, two limbs each), passed on
\* as four U256s.
pk_to_u256s(pk) == [i \in 1..Len(pk) |-> scalar_to_u256(pk[i])]

\* The signed variant: the Merkle contract is handed the leaf, the signature
\* and the signing key, checks the signature against old_pk_root and reverts
\* when it does not verify.
insert_signed_wallet_commitment_to_merkle_tree(m, private_shares_commitment, public_wallet_shares, wallet_commitment_signature, old_pk_root) ==
    LET total_wallet_shares ==
            prepare_wallet_shares_for_insertion(private_shares_commitment,
                                                public_wallet_shares)
        m1 == call_helper(m, [op |-> INSERT_SIGNED_SHARES,
                              arg |-> total_wallet_shares,
                              signature |-> wallet_commitment_signature,
                              old_pk_root |-> pk_to_u256s(old_pk_root)])
    IN  IF m1.err # NoError THEN m1
        ELSE [m1 EXCEPT !.tree = Append(@, total_wallet_shares)]

execute_external_transfer(m, transfer) ==
    external_call(m, EXECUTE_TRANSFER, <<transfer>>)

batch_verify_process_match_settle(m) ==
    LET m1 == fetch_vkeys(m)
        m2 == call_verifier(m1, VERIFY_MATCH)
    IN  assert_result(m2, m2.env.verdict, VERIFICATION_FAILED_ERROR)

\* ---------------------------------------------------------------- logging
log_wallet_update(m, public_wallet_shares) ==
    IF m.err # NoError THEN m
    ELSE Log(m, EV_WALLET_UPDATED,
             <<scalar_to_u256(get_public_blinder_from_shares(public_wallet_shares))>>)

\* --------------------------------------------------------------- rotation
\* Mutant: the nullifier is marked before the root is checked.
check_root_and_nullify_nullifier_first(m, nullifier, merkle_root) ==
    LET m1 == mark_nullifier_spent(m, nullifier)
    IN  IF no_verify THEN verification_disabled_guard(m1)
        ELSE check_root_in_history(m1, merkle_root)

check_root_and_nullify(m, nullifier, merkle_root) ==
    LET m1 == IF no_verify THEN verification_disabled_guard(m)
              ELSE check_root_in_history(m, merkle_root)
    IN  mark_nullifier_spent(m1, nullifier)

\* Mutant: the root and the nullifier are checked before the blinder.
check_wallet_rotation_blinder_last(m, old_wallet_nullifier, merkle_root, new_wallet_public_shares) ==
    LET public_blinder == get_public_blinder_from_shares(new_wallet_public_shares)
        m1 == check_root_and_nullify(m, old_wallet_nullifier, merkle_root)
        m2 == mark_public_blinder_used(m1, public_blinder)
    IN  log_wallet_update(m2, new_wallet_public_shares)

check_wallet_rotation(m, old_wallet_nullifier, merkle_root, new_wallet_public_shares) ==
    LET public_blinder == get_public_blinder_from_shares(new_wallet_public_shares)
        m1 == mark_public_blinder_used(m, public_blinder)
        m2 == check_root_and_nullify(m1, old_wallet_nullifier, merkle_root)
    IN  log_wallet_update(m2, new_wallet_public_shares)

\* History kept beside the code: what a rotation was given, what held when it
\* started, where in the trace it started and ended, and how it ended.
Attempt(m, mEnd, leg, signed) ==
    IF m.err # NoError THEN m
    ELSE [mEnd EXCEPT
            !.attempts = Append(@,
                [nullifier |-> leg.nullifier,
                 root |-> leg.root,
                 commitment |-> leg.commitment,
                 shares |-> leg.shares,
                 signed |-> signed,
                 auth |-> IF signed THEN <<leg.signature, leg.old_pk_root>>
                          ELSE <<>>,
                 blinder_used |-> leg.shares[Len(leg.shares)] \in m.bl,
                 blinder_committed |->
                     \E i \in DOMAIN m.tree :
                         /\ Len(m.tree[i]) > 1
                         /\ m.tree[i][Len(m.tree[i])] = leg.shares[Len(leg.shares)],
                 root_known |-> leg.root \in RootHistory(m.tree),
                 spent |-> leg.nullifier \in m.nul,
                 rotated |-> leg.nullifier \in m.rot,
                 from |-> Len(m.trace),
                 to |-> Len(mEnd.trace),
                 leaves_before |-> Len(m.tree),
                 leaves_after |-> Len(mEnd.tree),
                 reverted |-> mEnd.reverted,
                 err |-> mEnd.err]),
            !.rot = IF mEnd.err = NoError THEN @ \cup {leg.nullifier} ELSE @]

rotate_wallet(m, leg) ==
    LET m1 == check_wallet_rotation(m, leg.nullifier, leg.root, leg.shares)
        m2 == insert_wallet_commitment_to_merkle_tree(m1, leg.commitment, leg.shares)
    IN  Attempt(m, m2, leg, FALSE)

\* Mutant: the signed insertion is made before the rotation's checks.
rotate_wallet_with_signature_insert_first(m, leg) ==
    LET m1 == insert_signed_wallet_commitment_to_merkle_tree(
                  m, leg.commitment, leg.shares, leg.signature, leg.old_pk_root)
        m2 == check_wallet_rotation(m1, leg.nullifier, leg.root, leg.shares)
    IN  Attempt(m, m2, leg, TRUE)

\* Mutant: a signed rotation hands its leaf to the unsigned insertion.
rotate_wallet_with_signature_unsigned_client(m, leg) ==
    LET m1 == check_wallet_rotation(m, leg.nullifier, leg.root, leg.shares)
        m2 == insert_wallet_commitment_to_merkle_tree(m1, leg.commitment, leg.shares)
    IN  Attempt(m, m2, leg, TRUE)

rotate_wallet_with_signature(m, leg) ==
    LET m1 == check_wallet_rotation(m, leg.nullifier, leg.root, leg.shares)
        m2 == insert_signed_wallet_commitment_to_merkle_tree(
                  m1, leg.commitment, leg.shares, leg.signature, leg.old_pk_root)
    IN  Attempt(m, m2, leg, TRUE)

\* Mutant: the note event is logged before the note is inserted.
commit_note_event_first(m, note_commitment) ==
    IF m.err # NoError THEN m
    ELSE LET m1 == external_call(
                       Log(m, EV_NOTE_POSTED, <<scalar_to_u256(note_commitment)>>),
                       INSERT_NOTE, <<scalar_to_u256(note_commitment)>>)
         IN  IF m1.err # NoError THEN m1
             ELSE [m1 EXCEPT !.tree = Append(@, <<scalar_to_u256(note_commitment)>>)]

commit_note(m, note_commitment) ==
    LET m1 == external_call(m, INSERT_NOTE, <<scalar_to_u256(note_commitment)>>)
    IN  IF m1.err # NoError THEN m1
        ELSE Log([m1 EXCEPT !.tree = Append(@, <<scalar_to_u256(note_commitment)>>)],
                 EV_NOTE_POSTED, <<scalar_to_u256(note_commitment)>>)

\* ------------------------------------------------------------------ flows
\* Mutant: the verifier is called and its answer dropped.
verify_statement_unasserted(m) == verify(fetch_vkeys(m))

\* Mutant: a proof the verifier rejected is submitted to it once more.
verify_statement_retrying(m) ==
    LET m1 == verify(fetch_vkeys(m))
        m2 == IF m1.err = NoError /\ ~m1.env.verdict THEN verify(m1) ELSE m1
    IN  assert_result(m2, m2.env.verdict, VERIFICATION_FAILED_ERROR)

\* A flow's proof gate: fetch the verification key, call the verifier,
\* assert its answer.
verify_statement(m) ==
    LET m1 == verify(fetch_vkeys(m))
    IN  assert_result(m1, m1.env.verdict, VERIFICATION_FAILED_ERROR)

\* Mutant: the proof is verified before the statement is deserialized.
new_wallet_verify_first(m, stmt) ==
    LET m1 == IF no_verify THEN verification_disabled_guard(m)
              ELSE verify_statement(m)
        m2 == deserialize_from_calldata(m1, stmt)
        m3 == insert_wallet_commitment_to_merkle_tree(
                  m2, stmt.private_shares_commitment, stmt.public_wallet_shares)
    IN  log_wallet_update(m3, stmt.public_wallet_shares)

\* Mutant: new_wallet checks and marks the wallet's public blinder.
new_wallet_marking_blinder(m, stmt) ==
    LET m1 == deserialize_from_calldata(m, stmt)
        m2 == IF no_verify THEN verification_disabled_guard(m1)
              ELSE verify_statement(m1)
        m3 == IF m2.err # NoError THEN m2
              ELSE mark_public_blinder_used(
                       m2, get_public_blinder_from_shares(stmt.public_wallet_shares))
        m4 == insert_wallet_commitment_to_merkle_tree(
                  m3, stmt.private_shares_commitment, stmt.public_wallet_shares)
    IN  log_wallet_update(m4, stmt.public_wallet_shares)

new_wallet(m, stmt) ==
    LET m1 == deserialize_from_calldata(m, stmt)
        m2 == IF no_verify THEN verification_disabled_guard(m1)
              ELSE verify_statement(m1)
        m3 == insert_wallet_commitment_to_merkle_tree(
                  m2, stmt.private_shares_commitment, stmt.public_wallet_shares)
    IN  log_wallet_update(m3, stmt.public_wallet_shares)

\* Mutant: the transfer is executed before the wallet is rotated.
update_wallet_transfer_first(m, stmt, wallet_commitment_signature) ==
    LET m1 == deserialize_from_calldata(m, stmt)
        m2 == IF no_verify THEN verification_disabled_guard(m1)
              ELSE verify_statement(m1)
        m3 == IF m2.err = NoError /\ stmt.external_transfer # <<>>
              THEN execute_external_transfer(m2, stmt.external_transfer[1])
              ELSE m2
    IN  rotate_wallet_with_signature(m3,
            [nullifier |-> stmt.old_shares_nullifier,
             root |-> stmt.merkle_root,
             commitment |-> stmt.new_private_shares_commitment,
             shares |-> stmt.new_public_shares,
             signature |-> wallet_commitment_signature,
             old_pk_root |-> stmt.old_pk_root])

\* Mutant: the transfer executor's failure is not propagated.
update_wallet_dropping_transfer_result(m, stmt, wallet_commitment_signature) ==
    LET m1 == deserialize_from_calldata(m, stmt)
        m2 == IF no_verify THEN verification_disabled_guard(m1)
              ELSE verify_statement(m1)
        m3 == rotate_wallet_with_signature(m2,
                  [nullifier |-> stmt.old_shares_nullifier,
                   root |-> stmt.merkle_root,
                   commitment |-> stmt.new_private_shares_commitment,
                   shares |-> stmt.new_public_shares,
                   signature |-> wallet_commitment_signature,
                   old_pk_root |-> stmt.old_pk_root])
    IN  IF m3.err = NoError /\ stmt.external_transfer # <<>>
        THEN [execute_external_transfer(m3, stmt.external_transfer[1])
                  EXCEPT !.err = NoError]
        ELSE m3

update_wallet(m, stmt, wallet_commitment_signature) ==
    LET m1 == deserialize_from_calldata(m, stmt)
        m2 == IF no_verify THEN verification_disabled_guard(m1)
              ELSE verify_statement(m1)
        m3 == rotate_wallet_with_signature(m2,
                  [nullifier |-> stmt.old_shares_nullifier,
                   root |-> stmt.merkle_root,
                   commitment |-> stmt.new_private_shares_commitment,
                   shares |-> stmt.new_public_shares,
                   signature |-> wallet_commitment_signature,
                   old_pk_root |-> stmt.old_pk_root])
    IN  IF m3.err = NoError /\ stmt.external_transfer # <<>>
        THEN execute_external_transfer(m3, stmt.external_transfer[1])
        ELSE m3

\* Mutant: the protocol fee is compared before the indices.
process_match_settle_checks_fee_first(m, p0, p1, vs) ==
    LET a == u256_to_scalar(m, protocol_fee)
        b == assert_result(a, vs.protocol_fee = protocol_fee,
                           INVALID_PROTOCOL_FEE_ERROR)
        c == assert_result(b,
                 p0.indices = vs.party0_indices /\ p1.indices = vs.party1_indices,
                 INVALID_ORDER_SETTLEMENT_INDICES_ERROR)
    IN  batch_verify_process_match_settle(c)

\* Mutant: the protocol fee is not compared.
process_match_settle_checks_no_fee(m, p0, p1, vs) ==
    LET a == assert_result(m,
                 p0.indices = vs.party0_indices /\ p1.indices = vs.party1_indices,
                 INVALID_ORDER_SETTLEMENT_INDICES_ERROR)
        b == u256_to_scalar(a, protocol_fee)
    IN  batch_verify_process_match_settle(b)

\* Mutant: only party 0's indices are compared.
process_match_settle_checks_party0_only(m, p0, p1, vs) ==
    LET a == assert_result(m, p0.indices = vs.party0_indices,
                           INVALID_ORDER_SETTLEMENT_INDICES_ERROR)
        b == u256_to_scalar(a, protocol_fee)
        c == assert_result(b, vs.protocol_fee = protocol_fee,
                           INVALID_PROTOCOL_FEE_ERROR)
    IN  batch_verify_process_match_settle(c)

\* The body of process_match_settle's if_verifying! block.
process_match_settle_checks(m, p0, p1, vs) ==
    LET a == assert_result(m,
                 p0.indices = vs.party0_indices /\ p1.indices = vs.party1_indices,
                 INVALID_ORDER_SETTLEMENT_INDICES_ERROR)
        b == u256_to_scalar(a, protocol_fee)
        c == assert_result(b, vs.protocol_fee = protocol_fee,
                           INVALID_PROTOCOL_FEE_ERROR)
    IN  batch_verify_process_match_settle(c)

\* Mutant: the result of party 1's rotation is dropped.
process_match_settle_dropping_party1_result(m, stmt) ==
    LET m1 == deserialize_from_calldata(m, stmt.party_0_match_payload)
        m2 == deserialize_from_calldata(m1, stmt.party_1_match_payload)
        m3 == deserialize_from_calldata(m2, stmt.valid_match_settle_statement)
        p0 == stmt.party_0_match_payload
        p1 == stmt.party_1_match_payload
        vs == stmt.valid_match_settle_statement
        m4 == IF no_verify THEN verification_disabled_guard(m3)
              ELSE process_match_settle_checks(m3, p0, p1, vs)
        m5 == rotate_wallet(m4,
                  [nullifier |-> p0.original_shares_nullifier,
                   root |-> p0.merkle_root,
                   commitment |-> p0.reblinded_private_shares_commitment,
                   shares |-> vs.party0_modified_shares])
        m6 == rotate_wallet(m5,
                  [nullifier |-> p1.original_shares_nullifier,
                   root |-> p1.merkle_root,
                   commitment |-> p1.reblinded_private_shares_commitment,
                   shares |-> vs.party1_modified_shares])
    IN  [m6 EXCEPT !.err = m5.err]

\* Mutant: party 1's wallet is rotated before party 0's.
process_match_settle_party1_first(m, stmt) ==
    LET m1 == deserialize_from_calldata(m, stmt.party_0_match_payload)
        m2 == deserialize_from_calldata(m1, stmt.party_1_match_payload)
        m3 == deserialize_from_calldata(m2, stmt.valid_match_settle_statement)
        p0 == stmt.party_0_match_payload
        p1 == stmt.party_1_match_payload
        vs == stmt.valid_match_settle_statement
        m4 == IF no_verify THEN verification_disabled_guard(m3)
              ELSE process_match_settle_checks(m3, p0, p1, vs)
        m5 == rotate_wallet(m4,
                  [nullifier |-> p1.original_shares_nullifier,
                   root |-> p1.merkle_root,
                   commitment |-> p1.reblinded_private_shares_commitment,
                   shares |-> vs.party1_modified_shares])
    IN  rotate_wallet(m5,
            [nullifier |-> p0.original_shares_nullifier,
             root |-> p0.merkle_root,
             commitment |-> p0.reblinded_private_shares_commitment,
             shares |-> vs.party0_modified_shares])

process_match_settle(m, stmt) ==
    LET m1 == deserialize_from_calldata(m, stmt.party_0_match_payload)
        m2 == deserialize_from_calldata(m1, stmt.party_1_match_payload)
        m3 == deserialize_from_calldata(m2, stmt.valid_match_settle_statement)
        p0 == stmt.party_0_match_payload
        p1 == stmt.party_1_match_payload
        vs == stmt.valid_match_settle_statement
        m4 == IF no_verify THEN verification_disabled_guard(m3)
              ELSE process_match_settle_checks(m3, p0, p1, vs)
        m5 == rotate_wallet(m4,
                  [nullifier |-> p0.original_shares_nullifier,
                   root |-> p0.merkle_root,
                   commitment |-> p0.reblinded_private_shares_commitment,
                   shares |-> vs.party0_modified_shares])
    IN  rotate_wallet(m5,
            [nullifier |-> p1.original_shares_nullifier,
             root |-> p1.merkle_root,
             commitment |-> p1.reblinded_private_shares_commitment,
             shares |-> vs.party1_modified_shares])

\* Mutant: the signature and the key are used for the sender's leg too.
settle_online_relayer_fee_sender_signed(m, stmt, relayer_wallet_commitment_signature) ==
    LET m1 == deserialize_from_calldata(m, stmt)
        m2 == IF no_verify THEN verification_disabled_guard(m1)
              ELSE verify_statement(m1)
        m3 == rotate_wallet_with_signature(m2,
                  [nullifier |-> stmt.sender_nullifier,
                   root |-> stmt.sender_root,
                   commitment |-> stmt.sender_wallet_commitment,
                   shares |-> stmt.sender_updated_public_shares,
                   signature |-> relayer_wallet_commitment_signature,
                   old_pk_root |-> stmt.recipient_pk_root])
    IN  rotate_wallet_with_signature(m3,
            [nullifier |-> stmt.recipient_nullifier,
             root |-> stmt.recipient_root,
             commitment |-> stmt.recipient_wallet_commitment,
             shares |-> stmt.recipient_updated_public_shares,
             signature |-> relayer_wallet_commitment_signature,
             old_pk_root |-> stmt.recipient_pk_root])

settle_online_relayer_fee(m, stmt, relayer_wallet_commitment_signature) ==
    LET m1 == deserialize_from_calldata(m, stmt)
        m2 == IF no_verify THEN verification_disabled_guard(m1)
              ELSE verify_statement(m1)
        m3 == rotate_wallet(m2,
                  [nullifier |-> stmt.sender_nullifier,
                   root |-> stmt.sender_root,
                   commitment |-> stmt.sender_wallet_commitment,
                   shares |-> stmt.sender_updated_public_shares])
    IN  rotate_wallet_with_signature(m3,
            [nullifier |-> stmt.recipient_nullifier,
             root |-> stmt.recipient_root,
             commitment |-> stmt.recipient_wallet_commitment,
             shares |-> stmt.recipient_updated_public_shares,
             signature |-> relayer_wallet_commitment_signature,
             old_pk_root |-> stmt.recipient_pk_root])

\* Mutant: the protocol key is compared after the proof is verified.
settle_offline_fee_key_after_proof(m, stmt) ==
    LET m1 == deserialize_from_calldata(m, stmt)
        m2 == IF no_verify THEN verification_disabled_guard(m1)
              ELSE LET a == verify_statement(m1)
                       b == get_protocol_public_encryption_key(a)
                   IN  assert_result(b,
                           stmt.protocol_key = protocol_public_encryption_key,
                           INVALID_PROTOCOL_PUBKEY_ERROR)
        m3 == rotate_wallet(m2,
                  [nullifier |-> stmt.nullifier,
                   root |-> stmt.merkle_root,
                   commitment |-> stmt.updated_wallet_commitment,
                   shares |-> stmt.updated_wallet_public_shares])
    IN  commit_note(m3, stmt.note_commitment)

settle_offline_fee(m, stmt) ==
    LET m1 == deserialize_from_calldata(m, stmt)
        m2 == IF no_verify THEN verification_disabled_guard(m1)
              ELSE LET a == get_protocol_public_encryption_key(m1)
                       b == assert_result(a,
                                stmt.protocol_key = protocol_public_encryption_key,
                                INVALID_PROTOCOL_PUBKEY_ERROR)
                   IN  verify_statement(b)
        m3 == rotate_wallet(m2,
                  [nullifier |-> stmt.nullifier,
                   root |-> stmt.merkle_root,
                   commitment |-> stmt.updated_wallet_commitment,
                   shares |-> stmt.updated_wallet_public_shares])
    IN  commit_note(m3, stmt.note_commitment)

\* History kept beside the code: the note-nullifier consumption of redeem_fee.
NoteAttempt(m, mEnd, stmt) ==
    IF m.err # NoError THEN m
    ELSE [mEnd EXCEPT
            !.notes = Append(@,
                [nullifier |-> stmt.note_nullifier,
                 root |-> stmt.note_root,
                 root_known |-> stmt.note_root \in RootHistory(m.tree),
                 spent |-> stmt.note_nullifier \in m.nul,
                 redeemed |-> stmt.note_nullifier \in m.red,
                 from |-> Len(m.trace),
                 to |-> Len(mEnd.trace),
                 leaves_before |-> Len(m.tree),
                 leaves_after |-> Len(mEnd.tree),
                 reverted |-> mEnd.reverted,
                 err |-> mEnd.err]),
            !.red = IF mEnd.err = NoError THEN @ \cup {stmt.note_nullifier}
                    ELSE @]

\* Mutant: the note nullifier is never consumed.
redeem_fee_without_note(m, stmt, recipient_wallet_commitment_signature) ==
    LET m1 == deserialize_from_calldata(m, stmt)
        m2 == IF no_verify THEN verification_disabled_guard(m1)
              ELSE verify_statement(m1)
    IN  rotate_wallet_with_signature(m2,
            [nullifier |-> stmt.nullifier,
             root |-> stmt.wallet_root,
             commitment |-> stmt.new_wallet_commitment,
             shares |-> stmt.new_wallet_public_shares,
             signature |-> recipient_wallet_commitment_signature,
             old_pk_root |-> stmt.old_pk_root])

\* Mutant: the note nullifier is marked without checking the note root.
redeem_fee_note_root_unchecked(m, stmt, recipient_wallet_commitment_signature) ==
    LET m1 == deserialize_from_calldata(m, stmt)
        m2 == IF no_verify THEN verification_disabled_guard(m1)
              ELSE verify_statement(m1)
        m3 == rotate_wallet_with_signature(m2,
                  [nullifier |-> stmt.nullifier,
                   root |-> stmt.wallet_root,
                   commitment |-> stmt.new_wallet_commitment,
                   shares |-> stmt.new_wallet_public_shares,
                   signature |-> recipient_wallet_commitment_signature,
                   old_pk_root |-> stmt.old_pk_root])
    IN  NoteAttempt(m3, mark_nullifier_spent(m3, stmt.note_nullifier), stmt)

redeem_fee(m, stmt, recipient_wallet_commitment_signature) ==
    LET m1 == deserialize_from_calldata(m, stmt)
        m2 == IF no_verify THEN verification_disabled_guard(m1)
              ELSE verify_statement(m1)
        m3 == rotate_wallet_with_signature(m2,
                  [nullifier |-> stmt.nullifier,
                   root |-> stmt.wallet_root,
                   commitment |-> stmt.new_wallet_commitment,
                   shares |-> stmt.new_wallet_public_shares,
                   signature |-> recipient_wallet_commitment_signature,
                   old_pk_root |-> stmt.old_pk_root])
    IN  NoteAttempt(m3, check_root_and_nullify(m3, stmt.note_nullifier,
                                               stmt.note_root), stmt)

\* ----------------------------------------------------------------- inputs
\* A public-share vector: one balance/order share, then the public blinder.
PublicShares == {<<0, b>> : b \in Blinders}

Malformed == [well_formed |-> FALSE]

\* The chain id is read (block::chainid()) by the no-verify build only.
ChainsRead == IF no_verify THEN Chains ELSE {DEVNET_CHAINID}

\* What a reverting callee hands back: data that is no error message of the
\* engine, or data equal to the engine's own proof-rejected message.
RevertMessages == {CALL_REVERTED_ERROR, VERIFICATION_FAILED_ERROR}

\* What the environment answers in one invocation.  Every check fails fast,
\* so only the first failing external call matters: the verifier rejects,
\* or the fail_at-th external call reverts (0: none does) with revert_msg.
Envs(max_external_calls) ==
    {[verdict |-> v, fail_at |-> 0, chainid |-> c,
      revert_msg |-> CALL_REVERTED_ERROR] :
        v \in BOOLEAN, c \in ChainsRead}
      \cup
    {[verdict |-> TRUE, fail_at |-> k, chainid |-> c, revert_msg |-> msg] :
        k \in 1..max_external_calls, c \in ChainsRead,
        msg \in RevertMessages}

\* A signature is opaque bytes to the engine: it is handed to the Merkle
\* contract, whose verdict on it is the environment's (env.fail_at).
Signatures == {<<1, 2, 3>>}

WalletCreateStatements ==
    [well_formed : {TRUE},
     private_shares_commitment : Commitments,
     public_wallet_shares : PublicShares]

WalletUpdateStatements ==
    [well_formed : {TRUE},
     old_shares_nullifier : Nullifiers,
     merkle_root : Roots,
     new_private_shares_commitment : {1},
     new_public_shares : PublicShares,
     old_pk_root : {<<1, 0, 2, 0>>},
     external_transfer : {<<>>, <<1>>}]

MatchPayloads(c) ==
    [well_formed : {TRUE},
     indices : {0, 1},
     original_shares_nullifier : Nullifiers,
     merkle_root : Roots,
     reblinded_private_shares_commitment : {c}]

MatchSettleStatements ==
    [well_formed : {TRUE},
     party0_indices : {0},
     party1_indices : {0},
     protocol_fee : {1, 2},
     party0_modified_shares : PublicShares,
     party1_modified_shares : PublicShares]

\* Statements that pass the index and fee pre-checks carry every pair of
\* legs; statements that fail one carry one fixed pair of legs per blinder.
MatchInputs ==
    {x \in [party_0_match_payload : MatchPayloads(1),
            party_1_match_payload : MatchPayloads(2),
            valid_match_settle_statement : MatchSettleStatements] :
        \/ /\ x.party_0_match_payload.indices = 0
           /\ x.party_1_match_payload.indices = 0
           /\ x.valid_match_settle_statement.protocol_fee = 1
        \/ /\ x.party_0_match_payload.original_shares_nullifier = 1
           /\ x.party_1_match_payload.original_shares_nullifier = 2
           /\ x.party_0_match_payload.merkle_root = 0
           /\ x.party_1_match_payload.merkle_root = 0
           /\ x.valid_match_settle_statement.party0_modified_shares = <<0, 1>>
           /\ x.valid_match_settle_statement.party1_modified_shares = <<0, 2>>}

\* Inputs of which at least one of the three payloads does not decode; a
\* payload that decodes is one fixed payload.
MalformedMatchInputs ==
    {x \in [party_0_match_payload :
                {Malformed,
                 [well_formed |-> TRUE, indices |-> 0,
                  original_shares_nullifier |-> 1, merkle_root |-> 0,
                  reblinded_private_shares_commitment |-> 1]},
            party_1_match_payload :
                {Malformed,
                 [well_formed |-> TRUE, indices |-> 0,
                  original_shares_nullifier |-> 2, merkle_root |-> 0,
                  reblinded_private_shares_commitment |-> 2]},
            valid_match_settle_statement :
                {Malformed,
                 [well_formed |-> TRUE, party0_indices |-> 0,
                  party1_indices |-> 0, protocol_fee |-> 1,
                  party0_modified_shares |-> <<0, 1>>,
                  party1_modified_shares |-> <<0, 2>>]}] :
        \/ ~x.party_0_match_payload.well_formed
        \/ ~x.party_1_match_payload.well_formed
        \/ ~x.valid_match_settle_statement.well_formed}

RelayerFeeSettlementStatements ==
    [well_formed : {TRUE},
     sender_nullifier : Nullifiers,
     sender_root : Roots,
     sender_wallet_commitment : {1},
     sender_updated_public_shares : PublicShares,
     recipient_nullifier : Nullifiers,
     recipient_root : Roots,
     recipient_wallet_commitment : {2},
     recipient_updated_public_shares : PublicShares,
     recipient_pk_root : {<<3, 0, 4, 0>>}]

OfflineFeeSettlementStatements ==
    [well_formed : {TRUE},
     protocol_key : {<<1, 2>>, <<2, 1>>},
     nullifier : Nullifiers,
     merkle_root : Roots,
     updated_wallet_commitment : {1},
     updated_wallet_public_shares : PublicShares,
     note_commitment : {3}]

FeeRedemptionStatements ==
    [well_formed : {TRUE},
     nullifier : Nullifiers,
     wallet_root : Roots,
     new_wallet_commitment : {1},
     new_wallet_public_shares : PublicShares,
     old_pk_root : {<<5, 0, 6, 0>>},
     note_nullifier : Nullifiers,
     note_root : Roots]

\* ---------------------------------------------------------------- actions
\* The storage a call starts from.
Start(env) ==
    [nul |-> nullifier_set, bl |-> public_blinder_set, tree |-> leaves,
     rot |-> rotated, red |-> redeemed, env |-> env, ext |-> 0,
     trace |-> <<>>, attempts |-> <<>>, notes |-> <<>>, err |-> NoError,
     reverted |-> FALSE]

\* History kept beside the code: the rotations, note redemptions and wallet
\* creations of the invocations that returned Ok.
Tally(flow, m) ==
    IF m.err # NoError THEN tally
    ELSE [rotations |-> tally.rotations + Len(m.attempts),
          redemptions |-> tally.redemptions + Len(m.notes),
          creations |-> tally.creations
                           + (IF flow = "new_wallet" THEN 1 ELSE 0)]

\* Mutant: a match settlement stores its statement's fee as the protocol fee.
Return_storing_fee(flow, stmt, env, m) ==
    LET keep == m.err = NoError \/ ~host_reverts
    IN  /\ nullifier_set' = IF keep THEN m.nul ELSE nullifier_set
        /\ public_blinder_set' = IF keep THEN m.bl ELSE public_blinder_set
        /\ leaves' = IF keep THEN m.tree ELSE leaves
        /\ rotated' = IF keep THEN m.rot ELSE rotated
        /\ redeemed' = IF keep THEN m.red ELSE redeemed
        /\ tally' = Tally(flow, m)
        /\ calls' = calls + 1
        /\ last' = [flow |-> flow, stmt |-> stmt, env |-> env, err |-> m.err,
                    trace |-> m.trace, attempts |-> m.attempts,
                    notes |-> m.notes, kept |-> keep,
                    reverted |-> m.reverted,
                    pre |-> [nul |-> nullifier_set, bl |-> public_blinder_set,
                             tree |-> leaves, rot |-> rotated,
                             red |-> redeemed],
                    end |-> [nul |-> m.nul, bl |-> m.bl, tree |-> m.tree]]
        /\ protocol_fee' =
              IF flow = "process_match_settle" /\ m.err = NoError
              THEN stmt.valid_match_settle_statement.protocol_fee + 1
              ELSE protocol_fee
        /\ UNCHANGED <<no_verify, host_reverts,
                       protocol_public_encryption_key, addresses>>

\* Mutant: a host that reverts a failed call's writes except its blinder marks.
Return_keeping_blinder_marks(flow, stmt, env, m) ==
    LET keep == m.err = NoError \/ ~host_reverts
    IN  /\ nullifier_set' = IF keep THEN m.nul ELSE nullifier_set
        /\ public_blinder_set' = m.bl
        /\ leaves' = IF keep THEN m.tree ELSE leaves
        /\ rotated' = IF keep THEN m.rot ELSE rotated
        /\ redeemed' = IF keep THEN m.red ELSE redeemed
        /\ tally' = Tally(flow, m)
        /\ calls' = calls + 1
        /\ last' = [flow |-> flow, stmt |-> stmt, env |-> env, err |-> m.err,
                    trace |-> m.trace, attempts |-> m.attempts,
                    notes |-> m.notes, kept |-> keep,
                    reverted |-> m.reverted,
                    pre |-> [nul |-> nullifier_set, bl |-> public_blinder_set,
                             tree |-> leaves, rot |-> rotated,
                             red |-> redeemed],
                    end |-> [nul |-> m.nul, bl |-> m.bl, tree |-> m.tree]]
        /\ UNCHANGED config

\* The call returns: its writes are kept unless it failed and the host
\* reverts a failed call.
Return(flow, stmt, env, m) ==
    LET keep == m.err = NoError \/ ~host_reverts
    IN  /\ nullifier_set' = IF keep THEN m.nul ELSE nullifier_set
        /\ public_blinder_set' = IF keep THEN m.bl ELSE public_blinder_set
        /\ leaves' = IF keep THEN m.tree ELSE leaves
        /\ rotated' = IF keep THEN m.rot ELSE rotated
        /\ redeemed' = IF keep THEN m.red ELSE redeemed
        /\ tally' = Tally(flow, m)
        /\ calls' = calls + 1
        /\ last' = [flow |-> flow, stmt |-> stmt, env |-> env, err |-> m.err,
                    trace |-> m.trace, attempts |-> m.attempts,
                    notes |-> m.notes, kept |-> keep,
                    reverted |-> m.reverted,
                    pre |-> [nul |-> nullifier_set, bl |-> public_blinder_set,
                             tree |-> leaves, rot |-> rotated,
                             red |-> redeemed],
                    end |-> [nul |-> m.nul, bl |-> m.bl, tree |-> m.tree]]
        /\ UNCHANGED config

Idle == last.flow = "none" /\ calls < MaxCalls

NewWallet ==
    /\ Idle
    /\ \E stmt \in WalletCreateStatements \cup {Malformed}, env \in Envs(3) :
          Return("new_wallet", stmt, env, new_wallet(Start(env), stmt))

UpdateWallet ==
    /\ Idle
    /\ \E stmt \in WalletUpdateStatements \cup {Malformed}, env \in Envs(5),
          wallet_commitment_signature \in Signatures :
          Return("update_wallet", stmt, env,
                 update_wallet(Start(env), stmt, wallet_commitment_signature))

ProcessMatchSettle ==
    /\ Idle
    /\ \E stmt \in MatchInputs \cup MalformedMatchInputs, env \in Envs(6) :
          Return("process_match_settle", stmt, env,
                 process_match_settle(Start(env), stmt))

SettleOnlineRelayerFee ==
    /\ Idle
    /\ \E stmt \in RelayerFeeSettlementStatements \cup {Malformed},
          env \in Envs(6),
          relayer_wallet_commitment_signature \in Signatures :
          Return("settle_online_relayer_fee", stmt, env,
                 settle_online_relayer_fee(Start(env), stmt,
                                           relayer_wallet_commitment_signature))

SettleOfflineFee ==
    /\ Idle
    /\ \E stmt \in OfflineFeeSettlementStatements \cup {Malformed},
          env \in Envs(5) :
          Return("settle_offline_fee", stmt, env,
                 settle_offline_fee(Start(env), stmt))

RedeemFee ==
    /\ Idle
    /\ \E stmt \in FeeRedemptionStatements \cup {Malformed}, env \in Envs(5),
          recipient_wallet_commitment_signature \in Signatures :
          Return("redeem_fee", stmt, env,
                 redeem_fee(Start(env), stmt,
                            recipient_wallet_commitment_signature))

\* The transaction is over: the engine keeps no memory of it, only storage.
EndCall ==
    /\ last.flow # "none"
    /\ last' = NoCall
    /\ UNCHANGED <<config, nullifier_set, public_blinder_set, leaves,
                   rotated, redeemed, tally, calls>>

Init ==
    /\ no_verify \in BOOLEAN
    /\ host_reverts \in BOOLEAN
    /\ nullifier_set = {}
    /\ public_blinder_set = {}
    /\ protocol_fee = 1
    /\ protocol_public_encryption_key = <<1, 2>>
    /\ addresses = [verifier |-> "verifier", vkeys |-> "vkeys",
                    merkle |-> "merkle",
                    transfer_executor |-> "transfer_executor"]
    /\ leaves = <<>>
    /\ rotated = {}
    /\ redeemed = {}
    /\ tally = [rotations |-> 0, redemptions |-> 0, creations |-> 0]
    /\ calls = 0
    /\ last = NoCall

Next ==
    \/ NewWallet
    \/ UpdateWallet
    \/ ProcessMatchSettle
    \/ SettleOnlineRelayerFee
    \/ SettleOfflineFee
    \/ RedeemFee
    \/ EndCall

Spec == Init /\ [][Next]_vars

\* ------------------------------------------------- any stored protocol fee
\* The protocol fee is a StorageU256 written by the darkpool's owner methods:
\* the engine reads whatever U256 is there.  StoredFees has one fee that is a
\* field element and one that is not.
StoredFees == {1, ScalarModulus}

InitStoredFee ==
    /\ no_verify \in BOOLEAN
    /\ host_reverts \in BOOLEAN
    /\ nullifier_set = {}
    /\ public_blinder_set = {}
    /\ protocol_fee \in StoredFees
    /\ protocol_public_encryption_key = <<1, 2>>
    /\ addresses = [verifier |-> "verifier", vkeys |-> "vkeys",
                    merkle |-> "merkle",
                    transfer_executor |-> "transfer_executor"]
    /\ leaves = <<>>
    /\ rotated = {}
    /\ redeemed = {}
    /\ tally = [rotations |-> 0, redemptions |-> 0, creations |-> 0]
    /\ calls = 0
    /\ last = NoCall

SpecStoredFee == InitStoredFee /\ [][Next]_vars

\* ------------------------------------------------------- the scalar codec
\* The codec applied to every scalar and to every U256, each conversion made
\* twice; storage is not involved.
ScalarToU256 ==
    /\ Idle
    /\ \E scalar \in 0..(ScalarModulus - 1) :
          last' = [flow |-> "scalar_to_u256",
                   scalar |-> scalar,
                   u256 |-> scalar_to_u256(scalar),
                   err |-> u256_to_scalar([err |-> NoError],
                                          scalar_to_u256(scalar)).err,
                   value |-> u256_to_scalar_value(scalar_to_u256(scalar))]
    /\ calls' = calls + 1
    /\ UNCHANGED <<config, nullifier_set, public_blinder_set, leaves,
                   rotated, redeemed, tally>>

U256ToScalar ==
    /\ Idle
    /\ \E u256 \in 0..U256Max :
          last' = [flow |-> "u256_to_scalar",
                   u256 |-> u256,
                   err |-> u256_to_scalar([err |-> NoError], u256).err,
                   value |-> u256_to_scalar_value(u256),
                   again |-> [err |-> u256_to_scalar([err |-> NoError], u256).err,
                              value |-> u256_to_scalar_value(u256)]]
    /\ calls' = calls + 1
    /\ UNCHANGED <<config, nullifier_set, public_blinder_set, leaves,
                   rotated, redeemed, tally>>

CodecNext ==
    \/ ScalarToU256
    \/ U256ToScalar
    \/ EndCall

SpecCodec == Init /\ [][CodecNext]_vars

\* ================================================================ claims
Called == last.flow # "none"

WellFormed ==
    IF last.flow = "process_match_settle"
    THEN /\ last.stmt.party_0_match_payload.well_formed
         /\ last.stmt.party_1_match_payload.well_formed
         /\ last.stmt.valid_match_settle_statement.well_formed
    ELSE last.stmt.well_formed

TraceOps == {last.trace[i].op : i \in DOMAIN last.trace}

\* The operations one rotation (or note consumption) performed.
SliceOps(a) == {last.trace[i].op : i \in (a.from + 1)..a.to}

Count(op) == Cardinality({i \in DOMAIN last.trace : last.trace[i].op = op})

\* Nullifier and blinder marks, insertions, transfers and events.
EffectOps == WriteOps \cup InsertOps \cup EventOps \cup {EXECUTE_TRANSFER}

\* Storage as the call left it is storage as the call found it.
Untouched ==
    /\ last.end.nul = last.pre.nul
    /\ last.end.bl = last.pre.bl
    /\ last.end.tree = last.pre.tree
    /\ nullifier_set = last.pre.nul
    /\ public_blinder_set = last.pre.bl
    /\ leaves = last.pre.tree

\* The verifier was called, returned, and accepted.
ProofAccepted ==
    /\ last.env.verdict
    /\ \E i \in DOMAIN last.trace :
          last.trace[i].op \in VerifierOps /\ i < Len(last.trace)

\* C1 as stated: with verification enabled, a rotation citing a nullifier
\* that an earlier rotation consumed always fails with NullifierSpent,
\* whatever root and shares it carries.
C1_LaterRotationFailsNullifierSpent ==
    (Called /\ ~no_verify) =>
        \A i \in DOMAIN last.attempts :
            last.attempts[i].rotated =>
                last.attempts[i].err = NULLIFIER_SPENT_ERROR

\* C1 amended: with verification enabled, a rotation citing a nullifier that
\* an earlier rotation consumed never succeeds and inserts no leaf; it fails
\* with NullifierSpent when its blinder is unused, its root is in history and
\* the root query returns, and with the error of the earlier check otherwise.
C1_LaterRotationNeverSucceeds ==
    (Called /\ ~no_verify) =>
        \A i \in DOMAIN last.attempts :
            LET a == last.attempts[i]
            IN  a.rotated =>
                  /\ \/ a.reverted
                     \/ a.err \in {NULLIFIER_SPENT_ERROR, PUBLIC_BLINDER_USED_ERROR,
                                   ROOT_NOT_IN_HISTORY_ERROR}
                  /\ a.leaves_after = a.leaves_before
                  /\ NULLIFIER_INSERT \notin SliceOps(a)
                  /\ (a.blinder_used <=> a.err = PUBLIC_BLINDER_USED_ERROR)
                  /\ (~a.blinder_used /\ ~a.root_known /\ ~a.reverted
                         => a.err = ROOT_NOT_IN_HISTORY_ERROR)
                  /\ (~a.blinder_used /\ a.root_known /\ ~a.reverted
                         => a.err = NULLIFIER_SPENT_ERROR)

C1_Witness ==
    /\ Called /\ ~no_verify
    /\ \E i \in DOMAIN last.attempts :
          /\ last.attempts[i].rotated
          /\ ~last.attempts[i].blinder_used
          /\ last.attempts[i].root_known
          /\ last.attempts[i].err = NULLIFIER_SPENT_ERROR
          /\ last.attempts[i].nullifier \in last.pre.rot

\* C2: once a blinder is the public blinder of a wallet leaf committed to the
\* tree, by new_wallet or by a rotation, every later rotation whose new
\* public shares end in it fails with BlinderReused.
C2_CommittedBlinderNeverReused ==
    Called =>
        \A i \in DOMAIN last.attempts :
            last.attempts[i].blinder_committed =>
                last.attempts[i].err = PUBLIC_BLINDER_USED_ERROR

\* C3: (failed invocations leaving nothing behind) no two wallet leaves of
\* the tree expose the same public blinder, and the blinder of every wallet
\* leaf is marked used.
WalletLeaves == {i \in DOMAIN leaves : Len(leaves[i]) > 1}

LeafBlinder(i) == leaves[i][Len(leaves[i])]

C3_CommittedBlindersUniqueAndMarked ==
    host_reverts =>
        /\ \A i, j \in WalletLeaves :
              i # j => LeafBlinder(i) # LeafBlinder(j)
        /\ \A i \in WalletLeaves : LeafBlinder(i) \in public_blinder_set

\* C4 as stated: with verification enabled, a rotation whose cited root is
\* not in the root history fails with StaleRoot, marks no nullifier, inserts
\* no leaf and emits no wallet-update event.
C4_StaleRootFailsStaleRoot ==
    (Called /\ ~no_verify) =>
        \A i \in DOMAIN last.attempts :
            LET a == last.attempts[i]
            IN  ~a.root_known =>
                  /\ a.err = ROOT_NOT_IN_HISTORY_ERROR
                  /\ NULLIFIER_INSERT \notin SliceOps(a)
                  /\ a.leaves_after = a.leaves_before
                  /\ EV_WALLET_UPDATED \notin SliceOps(a)

\* C4 amended: with verification enabled, a rotation whose cited root is not
\* in the root history fails, marks no nullifier, inserts no leaf and emits no
\* wallet-update event; it fails with StaleRoot when its blinder is unused and
\* the root query returns, and with BlinderReused when its blinder is used
\* (that check runs first).
C4_StaleRootNeverRotates ==
    (Called /\ ~no_verify) =>
        \A i \in DOMAIN last.attempts :
            LET a == last.attempts[i]
            IN  ~a.root_known =>
                  /\ \/ a.reverted
                     \/ a.err \in {ROOT_NOT_IN_HISTORY_ERROR,
                                   PUBLIC_BLINDER_USED_ERROR}
                  /\ (a.blinder_used <=> a.err = PUBLIC_BLINDER_USED_ERROR)
                  /\ (~a.blinder_used /\ ~a.reverted
                         => a.err = ROOT_NOT_IN_HISTORY_ERROR)
                  /\ SliceOps(a) \subseteq {BLINDER_INSERT, ROOT_IN_HISTORY}
                  /\ a.leaves_after = a.leaves_before
                  /\ last.end.nul = last.pre.nul
                         \cup {last.attempts[j].nullifier : j \in 1..(i - 1)}

C4_Witness ==
    /\ Called /\ ~no_verify
    /\ \E i \in DOMAIN last.attempts :
          /\ ~last.attempts[i].root_known
          /\ ~last.attempts[i].spent
          /\ last.attempts[i].err = ROOT_NOT_IN_HISTORY_ERROR
          /\ ROOT_IN_HISTORY \in SliceOps(last.attempts[i])

\* C5: in the no-verify build on a chain other than the devnet, every flow
\* fails before it marks a nullifier or a blinder, inserts a leaf or executes
\* a transfer, and with the verification-disabled error when its payloads
\* decode; a no-verify invocation gets past its first guard only on the devnet.
C5_VerificationDisableGuard ==
    (Called /\ no_verify) =>
        /\ last.env.chainid # DEVNET_CHAINID =>
              /\ last.err # NoError
              /\ WellFormed => last.err = VERIFICATION_DISABLED_ERROR
              /\ last.trace = <<>>
              /\ Untouched
        /\ (last.err = NoError \/ last.trace # <<>>) =>
              last.env.chainid = DEVNET_CHAINID

C5_Witness ==
    /\ Called /\ no_verify /\ WellFormed
    /\ last.flow = "redeem_fee"
    /\ last.env.chainid # DEVNET_CHAINID
    /\ last.err = VERIFICATION_DISABLED_ERROR
    /\ last.pre.tree # <<>>

\* C6: with verification enabled, a flow marks, inserts, transfers or emits
\* only after the verifier was called in that invocation and accepted; when
\* the verifier rejects, the flow fails with the invalid-proof error and
\* storage is untouched.
C6_ProofGating ==
    (Called /\ ~no_verify) =>
        /\ \A j \in DOMAIN last.trace :
              last.trace[j].op \in EffectOps =>
                  /\ last.env.verdict
                  /\ \E i \in 1..(j - 1) : last.trace[i].op \in VerifierOps
        /\ (/\ TraceOps \cap VerifierOps # {}
            /\ ~last.env.verdict
            /\ ~last.reverted) =>
              /\ last.err = VERIFICATION_FAILED_ERROR
              /\ TraceOps \cap EffectOps = {}
              /\ Untouched
        /\ Count(VERIFY) + Count(VERIFY_MATCH) <= 1

C6_Witness ==
    /\ Called /\ ~no_verify
    /\ last.flow = "update_wallet"
    /\ TraceOps \cap VerifierOps # {}
    /\ ~last.env.verdict
    /\ last.err = VERIFICATION_FAILED_ERROR
    /\ last.stmt.old_shares_nullifier \notin nullifier_set

C6_WitnessAccepted ==
    /\ Called /\ ~no_verify
    /\ ProofAccepted
    /\ EXECUTE_TRANSFER \in TraceOps
    /\ last.err = NoError

\* C7: with verification enabled, a process_match_settle whose statement fee
\* differs from the stored protocol fee fails before the verifier is called
\* and before any nullifier, blinder or leaf is touched.
C7_FeeMismatchFailsBeforeVerifier ==
    (/\ Called /\ ~no_verify
     /\ last.flow = "process_match_settle"
     /\ WellFormed
     /\ last.stmt.valid_match_settle_statement.protocol_fee # protocol_fee) =>
        /\ last.err # NoError
        /\ TraceOps \cap (VerifierOps \cup EffectOps) = {}
        /\ Untouched

C7_Witness ==
    /\ Called /\ ~no_verify
    /\ last.flow = "process_match_settle"
    /\ WellFormed
    /\ last.stmt.valid_match_settle_statement.protocol_fee # protocol_fee
    /\ last.err = INVALID_PROTOCOL_FEE_ERROR
    /\ last.env.verdict

\* C8: with verification enabled, a process_match_settle in which either
\* party's commitment-statement indices differ from the settlement
\* statement's indices for that party fails with the index-mismatch error,
\* whatever the verifier would answer, and the verifier is not called.
IndicesMismatch ==
    \/ last.stmt.party_0_match_payload.indices
           # last.stmt.valid_match_settle_statement.party0_indices
    \/ last.stmt.party_1_match_payload.indices
           # last.stmt.valid_match_settle_statement.party1_indices

C8_IndexMismatchFailsBeforeVerifier ==
    (/\ Called /\ ~no_verify
     /\ last.flow = "process_match_settle"
     /\ WellFormed
     /\ IndicesMismatch) =>
        /\ last.err = INVALID_ORDER_SETTLEMENT_INDICES_ERROR
        /\ Count(VERIFY) + Count(VERIFY_MATCH) = 0
        /\ TraceOps \cap EffectOps = {}

C8_Witness ==
    /\ Called /\ ~no_verify
    /\ last.flow = "process_match_settle"
    /\ WellFormed
    /\ last.stmt.party_0_match_payload.indices
           = last.stmt.valid_match_settle_statement.party0_indices
    /\ last.stmt.party_1_match_payload.indices
           # last.stmt.valid_match_settle_statement.party1_indices
    /\ last.env.verdict
    /\ last.err = INVALID_ORDER_SETTLEMENT_INDICES_ERROR

\* C9 as stated: a new_wallet whose proof is accepted issues exactly one
\* unsigned insertion of [C, s1, ..., sn], emits exactly one wallet-update
\* event carrying sn, and leaves the nullifier set unchanged.
NewWalletLeaf ==
    <<last.stmt.private_shares_commitment>> \o last.stmt.public_wallet_shares

NewWalletInsertion ==
    /\ Count(INSERT_SHARES) = 1
    /\ Count(INSERT_SIGNED_SHARES) = 0
    /\ Count(INSERT_NOTE) = 0
    /\ \A i \in DOMAIN last.trace :
          last.trace[i].op = INSERT_SHARES => last.trace[i].arg = NewWalletLeaf
    /\ NULLIFIER_INSERT \notin TraceOps
    /\ last.end.nul = last.pre.nul
    /\ nullifier_set = last.pre.nul

NewWalletEvent ==
    /\ Cardinality({i \in DOMAIN last.trace : last.trace[i].op \in EventOps}) = 1
    /\ \E i \in DOMAIN last.trace :
          /\ last.trace[i].op = EV_WALLET_UPDATED
          /\ last.trace[i].arg
                 = <<last.stmt.public_wallet_shares[Len(last.stmt.public_wallet_shares)]>>

C9_NewWalletInsertsAndEmits ==
    (/\ Called /\ ~no_verify
     /\ last.flow = "new_wallet"
     /\ WellFormed
     /\ ProofAccepted) =>
        NewWalletInsertion /\ NewWalletEvent

\* C9 amended: a new_wallet whose proof is accepted issues exactly one
\* unsigned insertion of [C, s1, ..., sn] and leaves the nullifier set
\* unchanged; when that insertion returns it appends the leaf and emits
\* exactly one wallet-update event carrying sn, and when it reverts the call
\* fails and emits no event.
C9_NewWalletInsertsThenEmits ==
    (/\ Called /\ ~no_verify
     /\ last.flow = "new_wallet"
     /\ WellFormed
     /\ ProofAccepted) =>
        /\ NewWalletInsertion
        /\ last.err = NoError \/ last.reverted
        /\ last.err = NoError =>
              /\ NewWalletEvent
              /\ last.end.tree = Append(last.pre.tree, NewWalletLeaf)
              /\ leaves = Append(last.pre.tree, NewWalletLeaf)
        /\ last.reverted =>
              /\ TraceOps \cap EventOps = {}
              /\ last.end.tree = last.pre.tree

C9_Witness ==
    /\ Called /\ ~no_verify
    /\ last.flow = "new_wallet"
    /\ WellFormed
    /\ ProofAccepted
    /\ last.err = NoError
    /\ last.stmt.private_shares_commitment = 2
    /\ last.pre.nul # {}
    /\ leaves[Len(leaves)] = <<2, 0, 1>>

\* C10 as stated: a redeem_fee citing a note nullifier that an earlier
\* successful redeem_fee consumed fails with NullifierSpent even when all its
\* other checks pass (the wallet rotation succeeded, the note root is in
\* history, every external call returned).
C10_SecondRedemptionFails ==
    (Called /\ last.flow = "redeem_fee") =>
        /\ last.err = NoError =>
              /\ last.stmt.note_nullifier \in nullifier_set
              /\ last.stmt.note_nullifier \in redeemed
        /\ \A k \in DOMAIN last.notes :
              (/\ last.notes[k].redeemed
               /\ last.notes[k].root_known
               /\ ~last.reverted) =>
                  last.err = NULLIFIER_SPENT_ERROR

\* C10 amended: the same, with verification enabled (the no-verify build
\* marks a nullifier without checking that it is unspent).
C10_SecondRedemptionFailsWhenVerifying ==
    (Called /\ last.flow = "redeem_fee") =>
        /\ last.err = NoError =>
              /\ last.stmt.note_nullifier \in nullifier_set
              /\ last.stmt.note_nullifier \in redeemed
        /\ ~no_verify =>
              \A k \in DOMAIN last.notes :
                  last.notes[k].redeemed =>
                      /\ last.err # NoError
                      /\ last.notes[k].leaves_after = last.notes[k].leaves_before
                      /\ NULLIFIER_INSERT \notin SliceOps(last.notes[k])
                      /\ (last.notes[k].root_known /\ ~last.reverted)
                             => last.err = NULLIFIER_SPENT_ERROR

C10_Witness ==
    /\ Called /\ ~no_verify
    /\ last.flow = "redeem_fee"
    /\ ProofAccepted
    /\ Len(last.attempts) = 1
    /\ last.attempts[1].err = NoError
    /\ ~last.attempts[1].spent
    /\ ~last.attempts[1].blinder_used
    /\ Len(last.notes) = 1
    /\ last.notes[1].redeemed
    /\ last.notes[1].root_known
    /\ last.err = NULLIFIER_SPENT_ERROR

\* The operations of one rotation, in the order it performed them.
SliceSeq(a) == [k \in 1..(a.to - a.from) |-> last.trace[a.from + k].op]

IsPrefix(s, t) == Len(s) <= Len(t) /\ \A k \in DOMAIN s : s[k] = t[k]

\* The steps of a rotation: blinder mark, root query (verification enabled),
\* nullifier mark and its event, wallet-update event, insertion.
RotationSteps(a) ==
    <<BLINDER_INSERT>>
        \o (IF no_verify THEN <<>> ELSE <<ROOT_IN_HISTORY>>)
        \o <<NULLIFIER_INSERT, EV_NULLIFIER_SPENT, EV_WALLET_UPDATED>>
        \o <<IF a.signed THEN INSERT_SIGNED_SHARES ELSE INSERT_SHARES>>

StepsBefore(a, op) ==
    CHOOSE k \in 0..Len(RotationSteps(a)) :
        /\ (k < Len(RotationSteps(a)) => RotationSteps(a)[k + 1] = op)
        /\ \A j \in 1..k : RotationSteps(a)[j] # op

\* C11: the operations of a rotation are a prefix of: blinder mark, root
\* query, nullifier mark, wallet-update event carrying the new blinder, leaf
\* insertion; a rotation that succeeds performed them all, and one whose
\* blinder, root or nullifier check fails performed only the steps before
\* that check.
C11_RotationStepOrder ==
    Called =>
        \A i \in DOMAIN last.attempts :
            LET a == last.attempts[i]
                blinder == a.shares[Len(a.shares)]
            IN  /\ IsPrefix(SliceSeq(a), RotationSteps(a))
                /\ a.err = NoError => SliceSeq(a) = RotationSteps(a)
                /\ a.err = PUBLIC_BLINDER_USED_ERROR => SliceSeq(a) = <<>>
                /\ a.err = ROOT_NOT_IN_HISTORY_ERROR =>
                      SliceSeq(a) = <<BLINDER_INSERT, ROOT_IN_HISTORY>>
                /\ a.err = NULLIFIER_SPENT_ERROR =>
                      Len(SliceSeq(a)) = StepsBefore(a, NULLIFIER_INSERT)
                /\ a.err # NoError => a.leaves_after = a.leaves_before
                /\ \A k \in (a.from + 1)..a.to :
                      /\ last.trace[k].op \in {BLINDER_INSERT, EV_WALLET_UPDATED}
                            => last.trace[k].arg = <<blinder>>
                      /\ last.trace[k].op = ROOT_IN_HISTORY
                            => last.trace[k].arg = <<a.root>>
                      /\ last.trace[k].op = NULLIFIER_INSERT
                            => last.trace[k].arg = <<a.nullifier>>
                      /\ last.trace[k].op \in InsertOps
                            => last.trace[k].arg = <<a.commitment>> \o a.shares

C11_Witness ==
    /\ Called /\ ~no_verify
    /\ last.err = NULLIFIER_SPENT_ERROR
    /\ Len(last.attempts) = 2
    /\ last.attempts[1].err = NoError
    /\ last.attempts[1].root = 0
    /\ last.attempts[2].signed
    /\ last.attempts[2].err = NULLIFIER_SPENT_ERROR
    /\ SliceSeq(last.attempts[2]) = <<BLINDER_INSERT, ROOT_IN_HISTORY>>

\* A rotation that passed the blinder check and failed at a later step.
FailedAfterBlinder(a) == ~a.blinder_used /\ a.err # NoError

C12_WitnessDiscarded ==
    /\ Called /\ host_reverts
    /\ \E i \in DOMAIN last.attempts :
          /\ FailedAfterBlinder(last.attempts[i])
          /\ last.attempts[i].shares[2] \notin public_blinder_set

\* A failed invocation in which a rotation had already succeeded.
FirstRotationDone ==
    /\ last.err # NoError
    /\ Len(last.attempts) >= 1
    /\ last.attempts[1].err = NoError

\* No transfer was executed by a failed invocation: a transfer call it made
\* is its last operation and is the call that reverted.
NoTransferKept ==
    \A k \in DOMAIN last.trace :
        last.trace[k].op = EXECUTE_TRANSFER =>
            k = Len(last.trace) /\ last.reverted

C15_MalformedStatementFailsFirst ==
    (Called /\ ~WellFormed) =>
        /\ last.err = CALLDATA_DESER_ERROR
        /\ last.trace = <<>>
        /\ last.attempts = <<>>
        /\ last.notes = <<>>
        /\ Untouched

C15_Witness ==
    /\ Called
    /\ last.flow = "process_match_settle"
    /\ last.stmt.party_0_match_payload.well_formed
    /\ last.stmt.party_1_match_payload.well_formed
    /\ ~last.stmt.valid_match_settle_statement.well_formed
    /\ last.env.verdict
    /\ last.env.chainid # DEVNET_CHAINID
    /\ last.err = CALLDATA_DESER_ERROR
    /\ leaves # <<>>

\* C16 as stated: in the no-verify build on the devnet a rotation, or a note
\* consumption, that cites a spent nullifier fails with NullifierSpent (its
\* blinder being unused) and never succeeds.
C16_NullifierCheckedWhenNotVerifying ==
    (Called /\ no_verify) =>
        /\ \A i \in DOMAIN last.attempts :
              (last.attempts[i].spent /\ ~last.attempts[i].blinder_used) =>
                  last.attempts[i].err = NULLIFIER_SPENT_ERROR
        /\ \A k \in DOMAIN last.notes :
              last.notes[k].spent => last.notes[k].err = NULLIFIER_SPENT_ERROR

\* C16 amended: in the no-verify build on the devnet the root check and the
\* nullifier spent-check are both skipped and only the blinder check is
\* made: a rotation with an unused blinder marks its nullifier, spent or not,
\* and fails only if its insertion reverts; a note consumption always
\* succeeds.  With verification enabled neither succeeds on a spent nullifier.
C16_RootAndNullifierChecksSkipped ==
    Called =>
        /\ \A i \in DOMAIN last.attempts :
              LET a == last.attempts[i]
              IN  /\ (a.blinder_used <=> a.err = PUBLIC_BLINDER_USED_ERROR)
                  /\ (no_verify /\ ~a.blinder_used) =>
                        /\ last.env.chainid = DEVNET_CHAINID
                        /\ a.err = NoError \/ a.reverted
                        /\ ROOT_IN_HISTORY \notin SliceOps(a)
                        /\ NULLIFIER_INSERT \in SliceOps(a)
                        /\ a.nullifier \in last.end.nul
                  /\ (~no_verify /\ a.spent) =>
                        /\ a.err # NoError
                        /\ NULLIFIER_INSERT \notin SliceOps(a)
        /\ \A k \in DOMAIN last.notes :
              LET n == last.notes[k]
              IN  /\ no_verify =>
                        /\ n.err = NoError
                        /\ SliceOps(n) = {NULLIFIER_INSERT, EV_NULLIFIER_SPENT}
                  /\ (~no_verify /\ n.spent) =>
                        /\ n.err # NoError
                        /\ NULLIFIER_INSERT \notin SliceOps(n)

C16_Witness ==
    /\ Called /\ no_verify
    /\ last.env.chainid = DEVNET_CHAINID
    /\ last.flow = "update_wallet"
    /\ Len(last.attempts) = 1
    /\ last.attempts[1].spent
    /\ last.attempts[1].rotated
    /\ ~last.attempts[1].root_known
    /\ last.attempts[1].err = NoError
    /\ last.err = NoError
    /\ Len(leaves) = 2

\* C17: no step of the engine takes an entry out of the nullifier set or out
\* of the blinder set: both only grow from one invocation to the next, and
\* within an invocation.
C17_RegistriesOnlyGrow ==
    /\ [][/\ nullifier_set \subseteq nullifier_set'
          /\ public_blinder_set \subseteq public_blinder_set']_vars
    /\ [](Called => /\ last.pre.nul \subseteq last.end.nul
                    /\ last.pre.bl \subseteq last.end.bl
                    /\ last.pre.nul \subseteq nullifier_set
                    /\ last.pre.bl \subseteq public_blinder_set)

C17_Witness ==
    /\ Called
    /\ last.err = NoError
    /\ Cardinality(last.pre.nul) = 1
    /\ Cardinality(last.pre.bl) = 1
    /\ Cardinality(nullifier_set) = 3
    /\ Cardinality(public_blinder_set) = 2

\* The blinders of the wallet leaves the invocation found in the tree.
CommittedBlindersBefore ==
    {last.pre.tree[j][Len(last.pre.tree[j])] :
        j \in {j \in DOMAIN last.pre.tree : Len(last.pre.tree[j]) > 1}}

\* C18: with verification enabled and every external call returning, an
\* invocation ordered after one that succeeded, whose rotation cites the
\* nullifier the earlier one spent or whose new public shares end in the
\* blinder of a leaf the earlier one committed, fails with NullifierSpent or
\* BlinderReused and its rotation commits no leaf.
C18_SecondRacerLoses ==
    (Called /\ ~no_verify /\ last.env.fail_at = 0) =>
        \A i \in DOMAIN last.attempts :
            LET a == last.attempts[i]
            IN  (/\ a.root_known
                 /\ \/ a.nullifier \in last.pre.rot
                    \/ a.shares[Len(a.shares)] \in CommittedBlindersBefore) =>
                    /\ a.err \in {NULLIFIER_SPENT_ERROR,
                                  PUBLIC_BLINDER_USED_ERROR}
                    /\ a.leaves_after = a.leaves_before

\* The same for a race between two rotations: the second cites the nullifier
\* the first spent, or new public shares ending in the blinder the first
\* marked.  This holds.
C18_SecondRotationLoses ==
    (Called /\ ~no_verify /\ last.env.fail_at = 0) =>
        \A i \in DOMAIN last.attempts :
            LET a == last.attempts[i]
            IN  (/\ a.root_known
                 /\ \/ a.nullifier \in last.pre.rot
                    \/ a.shares[Len(a.shares)] \in last.pre.bl) =>
                    /\ a.err \in {NULLIFIER_SPENT_ERROR,
                                  PUBLIC_BLINDER_USED_ERROR}
                    /\ a.leaves_after = a.leaves_before

\* The events of the invocation, in the order they were emitted.
Events == SelectSeq(last.trace, LAMBDA s : s.op \notin ExternalOps \cup WriteOps)

\* C19 as stated: every event the engine emits is a wallet-update event or a
\* note-posted event.
C19_TwoEventKinds ==
    Called =>
        \A k \in DOMAIN Events :
            Events[k].op \in {EV_WALLET_UPDATED, EV_NOTE_POSTED}

\* C19 amended: the engine emits three kinds of event, in the order the
\* steps of the call emit them: a nullifier-spent event carrying the
\* nullifier, right after each nullifier mark; a wallet-update event carrying
\* the new public blinder, once per rotation that passed its checks and once
\* per wallet creation; a note-posted event carrying the note commitment,
\* right after each note insertion that returned.
C19_ThreeEventKinds ==
    Called =>
        /\ \A k \in DOMAIN Events :
              Events[k].op \in {EV_NULLIFIER_SPENT, EV_WALLET_UPDATED,
                                EV_NOTE_POSTED}
        /\ \A k \in DOMAIN last.trace :
              /\ last.trace[k].op = NULLIFIER_INSERT =>
                    /\ k < Len(last.trace)
                    /\ last.trace[k + 1]
                           = Step(EV_NULLIFIER_SPENT, last.trace[k].arg)
              /\ last.trace[k].op = EV_NULLIFIER_SPENT =>
                    /\ k > 1
                    /\ last.trace[k - 1].op = NULLIFIER_INSERT
              /\ last.trace[k].op = EV_NOTE_POSTED =>
                    /\ k > 1
                    /\ last.trace[k - 1] = Step(INSERT_NOTE, last.trace[k].arg)
                    /\ last.flow = "settle_offline_fee"
                    /\ last.trace[k].arg = <<last.stmt.note_commitment>>
              /\ (last.trace[k].op = INSERT_NOTE
                  /\ ~(k = Len(last.trace) /\ last.reverted)) =>
                    /\ k < Len(last.trace)
                    /\ last.trace[k + 1].op = EV_NOTE_POSTED
        /\ Count(EV_WALLET_UPDATED)
              = Cardinality({i \in DOMAIN last.attempts :
                    EV_WALLET_UPDATED \in SliceOps(last.attempts[i])})
                + (IF last.flow = "new_wallet" /\ last.err = NoError
                   THEN 1 ELSE 0)
        /\ \A i \in DOMAIN last.attempts :
              (last.attempts[i].err = NoError
                   => EV_WALLET_UPDATED \in SliceOps(last.attempts[i]))

C19_Witness ==
    /\ Called /\ ~no_verify
    /\ last.flow = "settle_offline_fee"
    /\ last.err = NoError
    /\ [i \in DOMAIN Events |-> Events[i].op]
           = <<EV_NULLIFIER_SPENT, EV_WALLET_UPDATED, EV_NOTE_POSTED>>
    /\ last.pre.tree # <<>>

ExtCalls == SelectSeq(last.trace, LAMBDA s : s.op \in ExternalOps)

\* The environment failed the key fetch or the verifier call.
VerifierTransportFailure ==
    /\ last.env.fail_at \in 1..Len(ExtCalls)
    /\ ExtCalls[last.env.fail_at].op \in VerifierOps \cup {FETCH_VKEYS}

NoRotationStarted ==
    /\ last.attempts = <<>>
    /\ last.notes = <<>>
    /\ TraceOps \cap EffectOps = {}
    /\ Untouched

C22_WitnessOutOfRange ==
    /\ last.flow = "u256_to_scalar"
    /\ last.u256 = ScalarModulus
    /\ last.err = SCALAR_CONVERSION_ERROR


\* ---------------------------------------------------------------------- C23
IsWalletInsert(op) == op \in {INSERT_SHARES, INSERT_SIGNED_SHARES}

\* The wallet-leaf insertions of the invocation, in order.
WalletInserts ==
    SelectSeq([i \in DOMAIN last.trace |-> last.trace[i].op], IsWalletInsert)

\* The signing key the invocation's statement names, if its flow has one.
StatementKey ==
    IF last.flow = "settle_online_relayer_fee"
    THEN last.stmt.recipient_pk_root
    ELSE last.stmt.old_pk_root

\* C23: a rotation that reaches its insertion calls the signed insertion
\* client, with the invocation's signature and the statement's signing key,
\* exactly when it is a rotation with signature, and the unsigned client
\* otherwise.  update_wallet and redeem_fee make at most one signed insertion
\* (one when they succeed) and no unsigned one; process_match_settle and
\* settle_offline_fee make unsigned wallet insertions only; the insertions of
\* settle_online_relayer_fee are a prefix of unsigned, signed, and are both
\* when it succeeds.
C23_InsertionRouting ==
    Called =>
        /\ \A i \in DOMAIN last.attempts :
              LET a == last.attempts[i]
              IN  /\ a.signed <=>
                        \/ last.flow \in {"update_wallet", "redeem_fee"}
                        \/ last.flow = "settle_online_relayer_fee" /\ i = 2
                  /\ \A k \in (a.from + 1)..a.to :
                        /\ last.trace[k].op = INSERT_SIGNED_SHARES =>
                              /\ a.signed
                              /\ k = a.to
                              /\ a.auth[1] \in Signatures
                              /\ a.auth[2] = StatementKey
                              /\ last.trace[k].signature = a.auth[1]
                              /\ last.trace[k].old_pk_root = pk_to_u256s(a.auth[2])
                        /\ last.trace[k].op = INSERT_SHARES =>
                              ~a.signed /\ k = a.to /\ a.auth = <<>>
                  /\ a.err = NoError =>
                        last.trace[a.to].op =
                            IF a.signed THEN INSERT_SIGNED_SHARES
                            ELSE INSERT_SHARES
        /\ last.flow \in {"update_wallet", "redeem_fee"} =>
              /\ IsPrefix(WalletInserts, <<INSERT_SIGNED_SHARES>>)
              /\ last.err = NoError => WalletInserts = <<INSERT_SIGNED_SHARES>>
        /\ last.flow = "process_match_settle" =>
              /\ IsPrefix(WalletInserts, <<INSERT_SHARES, INSERT_SHARES>>)
              /\ last.err = NoError =>
                    WalletInserts = <<INSERT_SHARES, INSERT_SHARES>>
        /\ last.flow = "settle_offline_fee" =>
              /\ IsPrefix(WalletInserts, <<INSERT_SHARES>>)
              /\ last.err = NoError => WalletInserts = <<INSERT_SHARES>>
        /\ last.flow = "settle_online_relayer_fee" =>
              /\ IsPrefix(WalletInserts, <<INSERT_SHARES, INSERT_SIGNED_SHARES>>)
              /\ last.err = NoError =>
                    WalletInserts = <<INSERT_SHARES, INSERT_SIGNED_SHARES>>

\* A relayer fee settlement that made its unsigned and then its signed
\* insertion, the signed one with the recipient's key.
C23_Witness ==
    /\ Called
    /\ last.flow = "settle_online_relayer_fee"
    /\ last.err = NoError
    /\ WalletInserts = <<INSERT_SHARES, INSERT_SIGNED_SHARES>>
    /\ last.trace[Len(last.trace)].old_pk_root
          = pk_to_u256s(last.stmt.recipient_pk_root)
    /\ ~last.attempts[1].signed
    /\ last.attempts[2].signed


\* ---------------------------------------------------------------------- C24
MatchSettled ==
    Called /\ last.flow = "process_match_settle" /\ last.err = NoError

\* What a match settlement is to rotate for each party.
PartyLeg(payload, shares) ==
    [nullifier |-> payload.original_shares_nullifier,
     root |-> payload.merkle_root,
     commitment |-> payload.reblinded_private_shares_commitment,
     shares |-> shares]

Party0Leg ==
    PartyLeg(last.stmt.party_0_match_payload,
             last.stmt.valid_match_settle_statement.party0_modified_shares)

Party1Leg ==
    PartyLeg(last.stmt.party_1_match_payload,
             last.stmt.valid_match_settle_statement.party1_modified_shares)

\* The rotation was unsigned, of this leg, and ran in full on the leg's values.
RotatedLeg(a, leg) ==
    /\ ~a.signed
    /\ a.err = NoError
    /\ a.nullifier = leg.nullifier
    /\ a.root = leg.root
    /\ a.commitment = leg.commitment
    /\ a.shares = leg.shares
    /\ SliceSeq(a) = RotationSteps(a)
    /\ \A k \in (a.from + 1)..a.to :
          /\ last.trace[k].op = ROOT_IN_HISTORY
                => last.trace[k].arg = <<leg.root>>
          /\ last.trace[k].op \in {NULLIFIER_INSERT, EV_NULLIFIER_SPENT}
                => last.trace[k].arg = <<leg.nullifier>>
          /\ last.trace[k].op \in {BLINDER_INSERT, EV_WALLET_UPDATED}
                => last.trace[k].arg = <<leg.shares[Len(leg.shares)]>>
          /\ last.trace[k].op = INSERT_SHARES
                => last.trace[k].arg = <<leg.commitment>> \o leg.shares

\* The two rotations of a successful match settlement, and what they leave.
MatchRotations ==
    /\ Len(last.attempts) = 2
    /\ RotatedLeg(last.attempts[1], Party0Leg)
    /\ RotatedLeg(last.attempts[2], Party1Leg)
    /\ last.attempts[1].to = last.attempts[2].from
    /\ last.attempts[2].to = Len(last.trace)
    /\ Count(NULLIFIER_INSERT) = 2
    /\ Count(BLINDER_INSERT) = 2
    /\ Count(INSERT_SHARES) = 2
    /\ Count(INSERT_SIGNED_SHARES) = 0
    /\ Count(INSERT_NOTE) = 0
    /\ leaves = last.pre.tree
                   \o << <<Party0Leg.commitment>> \o Party0Leg.shares,
                         <<Party1Leg.commitment>> \o Party1Leg.shares >>
    /\ public_blinder_set
          = last.pre.bl \cup {Party0Leg.shares[2], Party1Leg.shares[2]}
    /\ Cardinality(public_blinder_set \ last.pre.bl) = 2
    /\ nullifier_set
          = last.pre.nul \cup {Party0Leg.nullifier, Party1Leg.nullifier}

\* C24 as stated: a successful match settlement makes two unsigned rotations,
\* party 0's then party 1's, each on that party's nullifier, root, commitment
\* and modified shares, and marks exactly two nullifiers and two blinders and
\* inserts two leaves.
C24_MatchSettleMarksTwoNullifiers ==
    MatchSettled =>
        /\ MatchRotations
        /\ Cardinality(nullifier_set \ last.pre.nul) = 2

\* C24, amended: a successful match settlement makes two unsigned rotations,
\* party 0's then party 1's, each on that party's nullifier, root, commitment
\* and modified shares; it makes two nullifier marks and two blinder marks,
\* marks two blinders that were unmarked, and appends the two leaves; the two
\* nullifiers marked are two that were unspent when verification is enabled.
C24_MatchSettleRotations ==
    MatchSettled =>
        /\ MatchRotations
        /\ ~no_verify => Cardinality(nullifier_set \ last.pre.nul) = 2

\* A settlement accepted by the verifier on a tree that had a leaf already.
C24_Witness ==
    /\ MatchSettled
    /\ ~no_verify
    /\ Party0Leg.nullifier # Party1Leg.nullifier
    /\ Party0Leg.shares # Party1Leg.shares
    /\ Len(last.pre.tree) = 1
    /\ Len(leaves) = 3


\* ---------------------------------------------------------------------- C25
RelayerFeeSettled ==
    Called /\ last.flow = "settle_online_relayer_fee" /\ last.err = NoError

SenderLeg ==
    [nullifier |-> last.stmt.sender_nullifier,
     root |-> last.stmt.sender_root,
     commitment |-> last.stmt.sender_wallet_commitment,
     shares |-> last.stmt.sender_updated_public_shares]

RecipientLeg ==
    [nullifier |-> last.stmt.recipient_nullifier,
     root |-> last.stmt.recipient_root,
     commitment |-> last.stmt.recipient_wallet_commitment,
     shares |-> last.stmt.recipient_updated_public_shares]

\* The rotation was signed, of this leg, and ran in full on the leg's values,
\* its insertion carrying the signature and this key.
RotatedSignedLeg(a, leg, key) ==
    /\ a.signed
    /\ a.err = NoError
    /\ a.nullifier = leg.nullifier
    /\ a.root = leg.root
    /\ a.commitment = leg.commitment
    /\ a.shares = leg.shares
    /\ SliceSeq(a) = RotationSteps(a)
    /\ \A k \in (a.from + 1)..a.to :
          /\ last.trace[k].op = ROOT_IN_HISTORY
                => last.trace[k].arg = <<leg.root>>
          /\ last.trace[k].op \in {NULLIFIER_INSERT, EV_NULLIFIER_SPENT}
                => last.trace[k].arg = <<leg.nullifier>>
          /\ last.trace[k].op \in {BLINDER_INSERT, EV_WALLET_UPDATED}
                => last.trace[k].arg = <<leg.shares[Len(leg.shares)]>>
          /\ last.trace[k].op = INSERT_SIGNED_SHARES
                => /\ last.trace[k].arg = <<leg.commitment>> \o leg.shares
                   /\ last.trace[k].signature \in Signatures
                   /\ last.trace[k].old_pk_root = pk_to_u256s(key)

\* The steps that carry a signature or a signing key.
AuthorizedSteps ==
    {k \in DOMAIN last.trace :
        {"signature", "old_pk_root"} \cap DOMAIN last.trace[k] # {}}

\* C25: a successful settle_online_relayer_fee rotates the sender's wallet
\* unsigned and then the recipient's wallet signed, each on its own
\* nullifier, root, commitment and shares; the signature and the recipient's
\* signing key appear in the recipient's insertion and in no other step.
C25_SenderThenSignedRecipient ==
    RelayerFeeSettled =>
        /\ Len(last.attempts) = 2
        /\ RotatedLeg(last.attempts[1], SenderLeg)
        /\ RotatedSignedLeg(last.attempts[2], RecipientLeg,
                            last.stmt.recipient_pk_root)
        /\ last.attempts[1].to = last.attempts[2].from
        /\ last.attempts[2].to = Len(last.trace)
        /\ last.attempts[1].auth = <<>>
        /\ AuthorizedSteps = {Len(last.trace)}
        /\ leaves = last.pre.tree
                       \o << <<SenderLeg.commitment>> \o SenderLeg.shares,
                             <<RecipientLeg.commitment>> \o RecipientLeg.shares >>

\* A relayer fee settlement accepted by the verifier whose two legs differ in
\* nullifier and shares.
C25_Witness ==
    /\ RelayerFeeSettled
    /\ ~no_verify
    /\ SenderLeg.nullifier # RecipientLeg.nullifier
    /\ SenderLeg.shares # RecipientLeg.shares
    /\ Len(last.pre.tree) = 1
    /\ AuthorizedSteps = {Len(last.trace)}


\* ---------------------------------------------------------------------- C26
OfflineFeeCalled ==
    Called /\ last.flow = "settle_offline_fee" /\ last.stmt.well_formed

\* C26: with verification enabled, a settle_offline_fee invocation whose
\* statement decodes and names a protocol key other than the stored one fails
\* with the invalid-protocol-key error, having made no external call (key
\* store, verifier or tree), started no rotation, and touched no nullifier,
\* blinder or leaf; no other invocation fails with that error.
C26_KeyMismatchFailsFirst ==
    /\ (OfflineFeeCalled /\ ~no_verify
            /\ last.stmt.protocol_key # protocol_public_encryption_key) =>
          /\ last.err = INVALID_PROTOCOL_PUBKEY_ERROR
          /\ last.trace = <<>>
          /\ last.attempts = <<>>
          /\ ~last.reverted
          /\ Untouched
    /\ (Called /\ last.err = INVALID_PROTOCOL_PUBKEY_ERROR) =>
          /\ OfflineFeeCalled /\ ~no_verify
          /\ last.stmt.protocol_key # protocol_public_encryption_key

\* A key mismatch on storage that has a wallet in it, in an environment where
\* the key store would have failed had it been called.
C26_Witness ==
    /\ OfflineFeeCalled /\ ~no_verify
    /\ last.stmt.protocol_key # protocol_public_encryption_key
    /\ last.err = INVALID_PROTOCOL_PUBKEY_ERROR
    /\ last.env.fail_at = 1
    /\ last.pre.tree # <<>>
    /\ last.stmt.nullifier \notin last.pre.nul


\* ---------------------------------------------------------------------- C27
OfflineLeg ==
    [nullifier |-> last.stmt.nullifier,
     root |-> last.stmt.merkle_root,
     commitment |-> last.stmt.updated_wallet_commitment,
     shares |-> last.stmt.updated_wallet_public_shares]

\* The note steps of the invocation, in order.
IsNoteStep(op) == op \in {INSERT_NOTE, EV_NOTE_POSTED}

NoteSteps ==
    SelectSeq([i \in DOMAIN last.trace |-> last.trace[i].op], IsNoteStep)

\* C27: a successful settle_offline_fee makes one unsigned wallet rotation,
\* then one note insertion of the statement's note commitment, then one
\* note event carrying that value, and leaves the tree longer by the wallet
\* leaf and the note leaf; an invocation whose rotation failed or did not
\* start makes no note insertion, and one whose note insertion failed logs
\* no note event and fails.
C27_RotationThenNoteThenEvent ==
    (Called /\ last.flow = "settle_offline_fee") =>
        /\ last.err = NoError =>
              /\ Len(last.attempts) = 1
              /\ RotatedLeg(last.attempts[1], OfflineLeg)
              /\ Len(last.trace) = last.attempts[1].to + 2
              /\ last.trace[Len(last.trace) - 1]
                    = Step(INSERT_NOTE, <<last.stmt.note_commitment>>)
              /\ last.trace[Len(last.trace)]
                    = Step(EV_NOTE_POSTED, <<last.stmt.note_commitment>>)
              /\ NoteSteps = <<INSERT_NOTE, EV_NOTE_POSTED>>
              /\ leaves = last.pre.tree
                             \o << <<OfflineLeg.commitment>> \o OfflineLeg.shares,
                                   <<last.stmt.note_commitment>> >>
        /\ IsPrefix(NoteSteps, <<INSERT_NOTE, EV_NOTE_POSTED>>)
        /\ (last.attempts = <<>> \/ last.attempts[1].err # NoError) =>
              /\ NoteSteps = <<>>
              /\ last.err # NoError
        /\ (Count(INSERT_NOTE) = 1 /\ last.reverted) =>
              /\ last.trace[Len(last.trace)].op = INSERT_NOTE
              /\ NoteSteps = <<INSERT_NOTE>>
              /\ last.err # NoError
              /\ last.end.tree = last.pre.tree
                     \o << <<OfflineLeg.commitment>> \o OfflineLeg.shares >>

\* An offline fee settlement whose rotation succeeded and whose note
\* insertion was refused by the tree.
C27_Witness ==
    /\ Called /\ last.flow = "settle_offline_fee" /\ ~no_verify
    /\ Len(last.attempts) = 1
    /\ last.attempts[1].err = NoError
    /\ last.reverted
    /\ NoteSteps = <<INSERT_NOTE>>

\* An offline fee settlement that posted its note.
C27_WitnessPosted ==
    /\ Called /\ last.flow = "settle_offline_fee" /\ ~no_verify
    /\ last.err = NoError
    /\ NoteSteps = <<INSERT_NOTE, EV_NOTE_POSTED>>
    /\ Len(last.pre.tree) = 1
    /\ Len(leaves) = 3


\* ---------------------------------------------------------------------- C28
RedeemLeg ==
    [nullifier |-> last.stmt.nullifier,
     root |-> last.stmt.wallet_root,
     commitment |-> last.stmt.new_wallet_commitment,
     shares |-> last.stmt.new_wallet_public_shares]

\* The steps of a note consumption: root query (verification enabled),
\* nullifier mark and its event.
NoteConsumptionSteps ==
    (IF no_verify THEN <<>> ELSE <<ROOT_IN_HISTORY>>)
        \o <<NULLIFIER_INSERT, EV_NULLIFIER_SPENT>>

\* C28: a successful redeem_fee makes one signed rotation of the recipient's
\* wallet and then consumes the note: it queries the note root (verification
\* enabled) and marks the note nullifier spent, so that the call leaves the
\* wallet's and the note's nullifier spent, one more blinder marked and one
\* more leaf.  A note consumption starts only after the rotation succeeded,
\* marks no blinder, inserts no leaf and logs no wallet-update event, and with
\* verification enabled fails with StaleRoot, marking nothing, when the note
\* root is not in the history and the root query returned.
C28_NoteConsumption ==
    (Called /\ last.flow = "redeem_fee") =>
        /\ last.err = NoError =>
              /\ Len(last.attempts) = 1
              /\ RotatedSignedLeg(last.attempts[1], RedeemLeg,
                                  last.stmt.old_pk_root)
              /\ Len(last.notes) = 1
              /\ last.notes[1].err = NoError
              /\ last.notes[1].from = last.attempts[1].to
              /\ last.notes[1].to = Len(last.trace)
              /\ SliceSeq(last.notes[1]) = NoteConsumptionSteps
              /\ nullifier_set = last.pre.nul
                    \cup {last.stmt.nullifier, last.stmt.note_nullifier}
              /\ public_blinder_set
                    = last.pre.bl \cup {RedeemLeg.shares[Len(RedeemLeg.shares)]}
              /\ leaves = last.pre.tree
                             \o << <<RedeemLeg.commitment>> \o RedeemLeg.shares >>
        /\ \A k \in DOMAIN last.notes :
              LET n == last.notes[k]
              IN  /\ Len(last.attempts) = 1
                  /\ last.attempts[1].err = NoError
                  /\ n.nullifier = last.stmt.note_nullifier
                  /\ n.root = last.stmt.note_root
                  /\ IsPrefix(SliceSeq(n), NoteConsumptionSteps)
                  /\ n.leaves_after = n.leaves_before
                  /\ \A j \in (n.from + 1)..n.to :
                        /\ last.trace[j].op = ROOT_IN_HISTORY
                              => last.trace[j].arg = <<n.root>>
                        /\ last.trace[j].op \in {NULLIFIER_INSERT,
                                                 EV_NULLIFIER_SPENT}
                              => last.trace[j].arg = <<n.nullifier>>
                  /\ (~no_verify /\ ~n.root_known /\ ~n.reverted) =>
                        /\ n.err = ROOT_NOT_IN_HISTORY_ERROR
                        /\ last.err = ROOT_NOT_IN_HISTORY_ERROR
                        /\ SliceSeq(n) = <<ROOT_IN_HISTORY>>
                        /\ last.end.nul = last.pre.nul \cup {last.stmt.nullifier}

\* A redemption that rotated the wallet and consumed the note.
C28_Witness ==
    /\ Called /\ last.flow = "redeem_fee" /\ ~no_verify
    /\ last.err = NoError
    /\ Len(last.notes) = 1
    /\ last.stmt.note_nullifier \notin last.pre.nul
    /\ last.stmt.note_nullifier \in nullifier_set
    /\ Len(last.pre.tree) = 1

\* A redemption whose rotation succeeded and whose note root is unknown.
C28_WitnessStaleNoteRoot ==
    /\ Called /\ last.flow = "redeem_fee" /\ ~no_verify
    /\ Len(last.notes) = 1
    /\ ~last.notes[1].root_known
    /\ last.notes[1].err = ROOT_NOT_IN_HISTORY_ERROR
    /\ last.attempts[1].err = NoError


\* ---------------------------------------------------------------------- C29
\* The results an invocation can return.
Outcomes ==
    {NoError, CALLDATA_DESER_ERROR, VERIFICATION_FAILED_ERROR,
     VERIFICATION_DISABLED_ERROR, INVALID_ORDER_SETTLEMENT_INDICES_ERROR,
     INVALID_PROTOCOL_FEE_ERROR, INVALID_PROTOCOL_PUBKEY_ERROR,
     NULLIFIER_SPENT_ERROR, PUBLIC_BLINDER_USED_ERROR,
     ROOT_NOT_IN_HISTORY_ERROR, SCALAR_CONVERSION_ERROR}
        \cup RevertMessages

\* The most external calls an invocation of the flow makes.
MostExternalCalls ==
    CASE last.flow = "new_wallet" -> 3
      [] last.flow \in {"update_wallet", "settle_offline_fee", "redeem_fee"} -> 5
      [] OTHER -> 6

\* The checks that precede every external call of a flow.
PreCheckErrors ==
    {CALLDATA_DESER_ERROR, VERIFICATION_DISABLED_ERROR,
     INVALID_ORDER_SETTLEMENT_INDICES_ERROR, INVALID_PROTOCOL_FEE_ERROR,
     INVALID_PROTOCOL_PUBKEY_ERROR, SCALAR_CONVERSION_ERROR}

\* C29: every invocation returns success or one of the engine's errors
\* after a bounded number of steps; it queries the key store at most once,
\* calls the verifier at most once and the transfer executor at most once;
\* and the check that fails is the last thing it does: an external call that
\* reverts is the last step, a rejected proof is followed by no step after
\* the verifier call, a failed root or nullifier check by no step after the
\* root query, and a failed blinder check or pre-check by no step at all
\* after it.
C29_NoRetry ==
    Called =>
        /\ last.err \in Outcomes
        /\ Len(ExtCalls) <= MostExternalCalls
        /\ Len(last.trace) <= 14
        /\ Count(FETCH_VKEYS) <= 1
        /\ Count(VERIFY) + Count(VERIFY_MATCH) <= 1
        /\ Count(EXECUTE_TRANSFER) <= 1
        /\ last.env.fail_at > 0 => Len(ExtCalls) <= last.env.fail_at
        /\ last.reverted <=>
              /\ last.env.fail_at > 0
              /\ Len(ExtCalls) = last.env.fail_at
        /\ last.reverted =>
              /\ last.err = last.env.revert_msg
              /\ last.trace[Len(last.trace)].op \in ExternalOps
        /\ (last.err # NoError /\ ~last.reverted) =>
              /\ last.err \in PreCheckErrors => last.trace = <<>>
              /\ last.err = VERIFICATION_FAILED_ERROR =>
                    /\ last.trace[Len(last.trace)].op \in VerifierOps
                    /\ Len(ExtCalls) = 2
              /\ last.err \in {ROOT_NOT_IN_HISTORY_ERROR, NULLIFIER_SPENT_ERROR} =>
                    last.trace[Len(last.trace)].op = ROOT_IN_HISTORY
              /\ last.err = PUBLIC_BLINDER_USED_ERROR =>
                    LET a == last.attempts[Len(last.attempts)]
                    IN  a.err = PUBLIC_BLINDER_USED_ERROR
                           /\ a.from = Len(last.trace) /\ a.to = Len(last.trace)
        /\ \A i \in DOMAIN last.attempts :
              last.attempts[i].err # NoError =>
                  /\ i = Len(last.attempts)
                  /\ last.attempts[i].to = Len(last.trace)
                  /\ last.notes = <<>>
                  /\ last.err = last.attempts[i].err

\* A match settlement that made all six of its external calls and returned.
C29_Witness ==
    /\ Called /\ ~no_verify
    /\ last.flow = "process_match_settle"
    /\ last.err = NoError
    /\ Len(ExtCalls) = 6
    /\ Count(FETCH_VKEYS) = 1
    /\ Count(VERIFY_MATCH) = 1

\* An update whose transfer executor reverted: its fifth call is its last.
C29_WitnessFailedTransfer ==
    /\ Called /\ ~no_verify
    /\ last.flow = "update_wallet"
    /\ last.reverted
    /\ last.env.fail_at = 5
    /\ last.trace[Len(last.trace)].op = EXECUTE_TRANSFER


\* ---------------------------------------------------------------------- C30
\* The blinders that rotations which succeeded have marked: those of earlier
\* invocations' rotations kept by the host, and those of this invocation's
\* earlier legs.
BlindersOfEarlierRotations(i) ==
    {last.pre.tree[j][Len(last.pre.tree[j])] :
        j \in {l \in DOMAIN last.pre.tree :
                  /\ Len(last.pre.tree[l]) > 1
                  /\ last.pre.tree[l][Len(last.pre.tree[l])] \in last.pre.bl}}
      \cup
    {last.attempts[j].shares[Len(last.attempts[j].shares)] :
        j \in {l \in 1..(i - 1) : last.attempts[l].err = NoError}}

\* C30: in the no-verify build on the devnet chain, a rotation whose new
\* public shares end in a blinder that is marked used, the blinder of an
\* earlier successful rotation in particular, fails with the blinder-used
\* error before it does anything else and fails the invocation with it; a
\* rotation whose blinder is not marked marks it first.
C30_BlinderCheckedWhenNotVerifying ==
    (Called /\ no_verify) =>
        \A i \in DOMAIN last.attempts :
            LET a == last.attempts[i]
                blinder == a.shares[Len(a.shares)]
            IN  /\ last.env.chainid = DEVNET_CHAINID
                /\ blinder \in BlindersOfEarlierRotations(i) => a.blinder_used
                /\ a.blinder_used =>
                      /\ a.err = PUBLIC_BLINDER_USED_ERROR
                      /\ last.err = PUBLIC_BLINDER_USED_ERROR
                      /\ SliceSeq(a) = <<>>
                      /\ a.leaves_after = a.leaves_before
                /\ ~a.blinder_used =>
                      /\ a.err # PUBLIC_BLINDER_USED_ERROR
                      /\ SliceSeq(a) # <<>>
                      /\ SliceSeq(a)[1] = BLINDER_INSERT
                      /\ blinder \in last.end.bl

\* On the devnet with verification disabled and a host that reverts failed
\* calls, a rotation reuses the blinder of an earlier call's rotation.
C30_Witness ==
    /\ Called /\ no_verify /\ host_reverts
    /\ last.env.chainid = DEVNET_CHAINID
    /\ last.pre.rot # {}
    /\ Len(last.attempts) = 1
    /\ last.attempts[1].shares[2] \in BlindersOfEarlierRotations(1)
    /\ last.attempts[1].blinder_used
    /\ ~last.attempts[1].rotated
    /\ last.err = PUBLIC_BLINDER_USED_ERROR


\* ---------------------------------------------------------------------- C31
\* The proof gate lets the invocation through and every external call returns.
GatePassed ==
    /\ WellFormed
    /\ last.env.fail_at = 0
    /\ IF no_verify THEN last.env.chainid = DEVNET_CHAINID ELSE last.env.verdict

SignatureRejected(a) ==
    /\ a.signed
    /\ a.reverted
    /\ a.to > a.from
    /\ last.trace[a.to].op = INSERT_SIGNED_SHARES

\* C32: the signature and the signing key are handed to the signed insertion
\* call and to no other step; that call is the last step of its rotation and
\* comes after the rotation's blinder mark and nullifier mark, both made in
\* the same call; when it reverts the rotation and the invocation fail with
\* its error, no leaf is inserted by the rotation or after it, and no
\* transfer is executed.
C32_SignatureCheckedAtInsertion ==
    Called =>
        /\ \A k \in AuthorizedSteps : last.trace[k].op = INSERT_SIGNED_SHARES
        /\ \A i \in DOMAIN last.attempts :
              LET a == last.attempts[i]
                  blinder == a.shares[Len(a.shares)]
              IN  /\ \A k \in (a.from + 1)..a.to :
                        last.trace[k].op = INSERT_SIGNED_SHARES =>
                            /\ a.signed
                            /\ k = a.to
                            /\ k \in AuthorizedSteps
                            /\ \E j \in (a.from + 1)..(k - 1) :
                                  last.trace[j] = Step(BLINDER_INSERT, <<blinder>>)
                            /\ \E j \in (a.from + 1)..(k - 1) :
                                  last.trace[j]
                                      = Step(NULLIFIER_INSERT, <<a.nullifier>>)
                            /\ blinder \in last.end.bl
                            /\ a.nullifier \in last.end.nul
                  /\ SignatureRejected(a) =>
                        /\ a.err = last.env.revert_msg
                        /\ last.err = a.err
                        /\ last.err # NoError
                        /\ a.to = Len(last.trace)
                        /\ a.leaves_after = a.leaves_before
                        /\ Len(last.end.tree) = a.leaves_before
                        /\ EXECUTE_TRANSFER \notin TraceOps
                        /\ last.notes = <<>>

\* An update carrying a transfer whose signature the insertion client refused
\* after the blinder and the nullifier were marked.
C32_Witness ==
    /\ Called /\ ~no_verify
    /\ last.flow = "update_wallet"
    /\ last.stmt.well_formed
    /\ last.stmt.external_transfer # <<>>
    /\ Len(last.attempts) = 1
    /\ SignatureRejected(last.attempts[1])
    /\ last.stmt.old_shares_nullifier \in last.end.nul
    /\ last.stmt.old_shares_nullifier \notin last.pre.nul


\* ---------------------------------------------------------------------- C33
\* The legs of the invocation that were applied: rotations and note
\* consumptions that returned Ok.
AppliedLegs ==
    Cardinality({i \in DOMAIN last.attempts : last.attempts[i].err = NoError})
        + Cardinality({k \in DOMAIN last.notes : last.notes[k].err = NoError})

TwoLegFlows == {"process_match_settle", "settle_online_relayer_fee", "redeem_fee"}

\* C33: process_match_settle and settle_online_relayer_fee return success
\* only when both of their rotations succeeded, redeem_fee only when its
\* rotation and its note consumption both succeeded; an invocation of these
\* flows of which exactly one leg was applied returns a failure, the failure
\* of its second leg.
C33_SuccessOnlyAsPair ==
    (Called /\ last.flow \in TwoLegFlows) =>
        /\ AppliedLegs \in 0..2
        /\ last.err = NoError <=> AppliedLegs = 2
        /\ last.err = NoError =>
              IF last.flow = "redeem_fee"
              THEN /\ Len(last.attempts) = 1 /\ Len(last.notes) = 1
                   /\ last.attempts[1].err = NoError
                   /\ last.notes[1].err = NoError
              ELSE /\ Len(last.attempts) = 2 /\ last.notes = <<>>
                   /\ last.attempts[1].err = NoError
                   /\ last.attempts[2].err = NoError
        /\ AppliedLegs = 1 =>
              /\ last.err # NoError
              /\ last.attempts[1].err = NoError
              /\ IF last.flow = "redeem_fee"
                 THEN Len(last.notes) = 1 /\ last.notes[1].err = last.err
                 ELSE Len(last.attempts) = 2 /\ last.attempts[2].err = last.err

\* A match settlement whose first rotation was applied and whose second
\* failed on a spent nullifier.
C33_Witness ==
    /\ Called /\ ~no_verify
    /\ last.flow = "process_match_settle"
    /\ AppliedLegs = 1
    /\ last.err = NULLIFIER_SPENT_ERROR
    /\ Len(last.end.tree) = Len(last.pre.tree) + 1


\* ---------------------------------------------------------------------- C34
TwoRotationFlows == {"process_match_settle", "settle_online_relayer_fee"}

FirstLeg == IF last.flow = "process_match_settle" THEN Party0Leg ELSE SenderLeg

SecondLeg == IF last.flow = "process_match_settle" THEN Party1Leg ELSE RecipientLeg

SameNullifier ==
    /\ last.flow \in TwoRotationFlows
    /\ FirstLeg.nullifier = SecondLeg.nullifier

SameBlinder ==
    /\ last.flow \in TwoRotationFlows
    /\ FirstLeg.shares[Len(FirstLeg.shares)]
          = SecondLeg.shares[Len(SecondLeg.shares)]

NoteIsWallet ==
    /\ last.flow = "redeem_fee"
    /\ last.stmt.note_nullifier = last.stmt.nullifier

\* C34 as stated: with verification enabled (the statement decoding, the
\* proof accepted and every external call returning), an invocation whose two
\* legs cite one nullifier fails with NullifierSpent, one whose two share
\* vectors end in one blinder fails with BlinderReused, and a redemption whose
\* note nullifier is its wallet nullifier fails with NullifierSpent.
C34_DistinctnessErrors ==
    (Called /\ ~no_verify /\ GatePassed) =>
        /\ SameNullifier => last.err = NULLIFIER_SPENT_ERROR
        /\ SameBlinder => last.err = PUBLIC_BLINDER_USED_ERROR
        /\ NoteIsWallet => last.err = NULLIFIER_SPENT_ERROR

\* C34, amended: with verification enabled such an invocation never succeeds.
\* When its first leg succeeded, its second leg finds the nullifier spent or
\* the blinder used: with one blinder it fails with BlinderReused before any
\* other step; with one nullifier it fails with NullifierSpent when its
\* blinder is unused, its root is in the history and the root query returns;
\* a redemption's note consumption fails with NullifierSpent when the note
\* root is in the history and the root query returns.  A check that fails
\* earlier (the first leg's, or the blinder or root check of the second leg)
\* gives the invocation its own error.
C34_DistinctnessInsideOneCall ==
    (Called /\ ~no_verify /\ WellFormed) =>
        /\ (SameNullifier \/ SameBlinder \/ NoteIsWallet) => last.err # NoError
        /\ (SameNullifier /\ Len(last.attempts) = 2) =>
              LET a == last.attempts[2]
              IN  /\ a.spent
                  /\ a.err # NoError
                  /\ (~a.blinder_used /\ a.root_known /\ ~a.reverted) =>
                        /\ a.err = NULLIFIER_SPENT_ERROR
                        /\ last.err = NULLIFIER_SPENT_ERROR
        /\ (SameBlinder /\ Len(last.attempts) = 2) =>
              LET a == last.attempts[2]
              IN  /\ a.blinder_used
                  /\ a.err = PUBLIC_BLINDER_USED_ERROR
                  /\ last.err = PUBLIC_BLINDER_USED_ERROR
                  /\ SliceSeq(a) = <<>>
        /\ (NoteIsWallet /\ Len(last.notes) = 1) =>
              LET n == last.notes[1]
              IN  /\ n.spent
                  /\ n.err # NoError
                  /\ (n.root_known /\ ~n.reverted) =>
                        /\ n.err = NULLIFIER_SPENT_ERROR
                        /\ last.err = NULLIFIER_SPENT_ERROR

\* A relayer fee settlement whose two legs cite one nullifier, unspent before
\* the call, and whose second leg fails on it.
C34_Witness ==
    /\ Called /\ ~no_verify /\ WellFormed
    /\ last.flow = "settle_online_relayer_fee"
    /\ SameNullifier /\ ~SameBlinder
    /\ FirstLeg.nullifier \notin last.pre.nul
    /\ Len(last.attempts) = 2
    /\ last.err = NULLIFIER_SPENT_ERROR

\* A redemption whose note nullifier is its wallet nullifier.
C34_WitnessNote ==
    /\ Called /\ ~no_verify /\ WellFormed
    /\ NoteIsWallet
    /\ last.stmt.nullifier \notin last.pre.nul
    /\ Len(last.notes) = 1
    /\ last.err = NULLIFIER_SPENT_ERROR


\* ---------------------------------------------------------------------- C35
UpdateWithTransfer ==
    /\ Called /\ last.flow = "update_wallet"
    /\ last.stmt.well_formed
    /\ last.stmt.external_transfer # <<>>

\* The transfer executor was called and reverted.
TransferFailed ==
    /\ last.trace # <<>>
    /\ last.trace[Len(last.trace)].op = EXECUTE_TRANSFER
    /\ last.reverted

\* C35: an update_wallet invocation whose statement carries a transfer
\* returns success only when the transfer executor was called, once, as its
\* last step, with the statement's transfer, and returned; when the transfer
\* executor reverts, the invocation fails with that call's error although its
\* rotation had succeeded.
C35_UpdateSucceedsWithTransfer ==
    UpdateWithTransfer =>
        /\ last.err = NoError =>
              /\ Count(EXECUTE_TRANSFER) = 1
              /\ last.trace[Len(last.trace)]
                    = Step(EXECUTE_TRANSFER, last.stmt.external_transfer)
              /\ ~last.reverted
              /\ Len(last.attempts) = 1
              /\ last.attempts[1].err = NoError
              /\ last.attempts[1].to = Len(last.trace) - 1
        /\ TransferFailed =>
              /\ last.err # NoError
              /\ last.err = last.env.revert_msg
              /\ Len(last.attempts) = 1
              /\ last.attempts[1].err = NoError
              /\ rotated = last.pre.rot \/ ~host_reverts

\* An update whose rotation succeeded and whose transfer was refused.
C35_Witness ==
    /\ UpdateWithTransfer /\ ~no_verify
    /\ TransferFailed
    /\ last.attempts[1].err = NoError
    /\ last.err = CALL_REVERTED_ERROR


C36_WitnessAfterFailure ==
    /\ ~no_verify /\ host_reverts
    /\ calls = 2
    /\ Called /\ last.err # NoError /\ last.trace # <<>>
    /\ tally.rotations = 2


\* ---------------------------------------------------------------------- C37
MatchSettleVerifying ==
    /\ Called /\ ~no_verify
    /\ last.flow = "process_match_settle"
    /\ WellFormed

FeeMismatch ==
    last.stmt.valid_match_settle_statement.protocol_fee # protocol_fee

StoredFeeConverts == u256_to_scalar_ok(protocol_fee)

MatchPreCheckErrors ==
    {INVALID_ORDER_SETTLEMENT_INDICES_ERROR, SCALAR_CONVERSION_ERROR,
     INVALID_PROTOCOL_FEE_ERROR}

\* C37 as stated: with verification enabled, a process_match_settle whose
\* indices and fee both mismatch fails with the index-mismatch error, and one
\* run on a stored protocol fee that is no field element fails with the
\* scalar-conversion error, before the verifier is called.
C37_StoredFeeAlwaysConversionError ==
    MatchSettleVerifying =>
        /\ (IndicesMismatch /\ FeeMismatch /\ StoredFeeConverts) =>
              last.err = INVALID_ORDER_SETTLEMENT_INDICES_ERROR
        /\ ~StoredFeeConverts =>
              /\ last.err = SCALAR_CONVERSION_ERROR
              /\ TraceOps \cap VerifierOps = {}

\* C37, amended: with verification enabled process_match_settle checks the
\* indices, then converts the stored protocol fee, then compares the fee,
\* then verifies the batch proof: mismatching indices give the index-mismatch
\* error whatever the fee is; with matching indices a stored fee that is no
\* field element gives the scalar-conversion error, and a convertible stored
\* fee other than the statement's gives the fee-mismatch error; each of the
\* three before any external call; with none of the three the key store is
\* called next.
C37_PreCheckOrder ==
    MatchSettleVerifying =>
        /\ IndicesMismatch =>
              last.err = INVALID_ORDER_SETTLEMENT_INDICES_ERROR
        /\ (~IndicesMismatch /\ ~StoredFeeConverts) =>
              last.err = SCALAR_CONVERSION_ERROR
        /\ (~IndicesMismatch /\ StoredFeeConverts /\ FeeMismatch) =>
              last.err = INVALID_PROTOCOL_FEE_ERROR
        /\ last.err \in MatchPreCheckErrors =>
              /\ last.trace = <<>>
              /\ last.attempts = <<>>
              /\ Untouched
        /\ (~IndicesMismatch /\ StoredFeeConverts /\ ~FeeMismatch) =>
              /\ last.err \notin MatchPreCheckErrors
              /\ last.trace # <<>>
              /\ last.trace[1].op = FETCH_VKEYS

\* Indices and fee both mismatch, on a stored fee that converts.
C37_Witness ==
    /\ MatchSettleVerifying
    /\ IndicesMismatch /\ FeeMismatch /\ StoredFeeConverts
    /\ last.err = INVALID_ORDER_SETTLEMENT_INDICES_ERROR
    /\ last.env.verdict

\* Matching indices on a stored fee that is no field element.
C37_WitnessStoredFee ==
    /\ MatchSettleVerifying
    /\ ~IndicesMismatch /\ ~StoredFeeConverts
    /\ last.err = SCALAR_CONVERSION_ERROR
    /\ last.trace = <<>>
    /\ last.env.verdict

====
